---- MODULE Spec2Model ----
(***************************************************************************)
(* The operation-execution pipeline of the VMware MCP server: the          *)
(* permission table, the task poller, the retry, timeout and audit         *)
(* decorators, and the operation bodies that ride on them.                 *)
(*                                                                         *)
(* Time is discrete, one unit per second.  asyncio is cooperative: the     *)
(* code between two suspension points (asyncio.sleep, the read of a task's *)
(* state) runs as one step, and time passes only while the invocation is   *)
(* suspended in a sleep.  A timer that is due fires before time advances;  *)
(* of two timers due at the same instant the one armed first fires first.  *)
(***************************************************************************)
EXTENDS Integers, Sequences, FiniteSets, TLC

(***************************************************************************)
(* Bounds of the model.                                                    *)
(***************************************************************************)
\* settings.operation_timeout, an environment setting (default 300 s); the
\* model runs the deployment OPERATION_TIMEOUT=8.
OperationTimeout == 8
\* timeout_handler(600), timeout_handler(900) and timeout_handler(300), shortened
\* in the same way.
LongOperationTimeout == 9
SweepTimeout == 10
AddHostTimeout == 8
\* The remote plane an invocation meets: its tasks reach their end state
\* after at most MaxTaskDelay reads, and the tasks that do not succeed are
\* FaultCount successive ones, the first of them among the first
\* MaxFirstFault tasks of the invocation.
MaxTaskDelay == 1
MaxFirstFault == 2
MaxFaultCount == 3
\* The snapshots an entity gets, taken or on their way, where the model
\* follows them from one request to the next.
MaxSnapshots == 2
\* The latest time, in seconds after the first of two invocations began, at
\* which the second begins.
MaxStartGap == 2

\* How long the model follows the clock while the application idles.
MaxUptime == 3

\* How many signals the process receives at most.
MaxSignals == 2

\* The largest timeout wait_for_task_async is called with on its own, and the
\* largest number of reads after which its task ends.
MaxPollerTimeout == 3
MaxLateDelay == 5

(***************************************************************************)
(* Program constants.                                                      *)
(***************************************************************************)
max_retries    == 2      \* @async_retry(max_retries=2)
RetryDelay     == 1      \* async_retry(delay=1.0)
RetryBackoff   == 2      \* async_retry(backoff=2.0)
PollInterval   == 1      \* wait_for_task_async: asyncio.sleep(1)
GraceSleep     == 5      \* stop_vm: asyncio.sleep(5)
RestartPause   == 2      \* restart_vm: asyncio.sleep(2)
MaxNameLen     == 80     \* validate_vm_name: len(vm_name) > 80
MaxHostNameLen == 253    \* validate_host_name: len(host_name) > 253
MaxLabelLen    == 63     \* validate_host_name: {0,61} between two alphanumerics

(***************************************************************************)
(* State.                                                                  *)
(***************************************************************************)
VARIABLES
  enable_rbac,  \* settings.enable_rbac
  table,        \* RBACManager.ROLES as the running server holds it
  si,           \* auth_manager.si is set (a connection is held)
  app,          \* the VMwareMCPApplication of main.py and the REST session of
                \* auth_manager, where the model follows the process lifecycle
  sinkFaulty,   \* the "vmware_mcp.audit" logger raises when it is called
  now,          \* the clock, in seconds since the invocation in flight began
  args,         \* the argument bag of the invocation in flight
  stack,        \* the frames of the invocation in flight, outermost first
  tasks,        \* the remote tasks submitted by the invocation in flight
  vm,           \* the remote state of the virtual machine EntityName
  audit,        \* the records the audit logger received from the invocation
  events,       \* what the invocation did, in order
  origin,       \* the failure last raised at a raise site, as it was raised
  wrapped,      \* what the outermost audit_log.wrapper got from the call it wraps
  outcome,      \* what the Dispatch Front received from the invocation
  nextId,       \* the number of the next decorated call
  plan,         \* how the remote plane treats the invocation in flight
  remoteSnapshots, \* the snapshots of EntityName as the remote plane holds them
                \* from one request to the next, where the model follows them
  concurrent,   \* the other coroutine of the event loop, where the model runs
                \* two invocations at a time
  reply         \* what call_tool returned to the transport for the last request

vars == << enable_rbac, table, si, app, sinkFaulty, remoteSnapshots, concurrent, now, args, stack, tasks, vm, audit,
           events, origin, wrapped, outcome, nextId, plan, reply >>

(***************************************************************************)
(* Permission Registry (auth.py, RBACManager).                             *)
(***************************************************************************)
ROLES ==
  [ admin |->
      { "vm:create", "vm:delete", "vm:start", "vm:stop", "vm:clone", "vm:migrate",
        "host:add", "host:remove", "host:maintenance", "host:monitor",
        "snapshot:create", "snapshot:delete", "snapshot:revert",
        "resource:allocate", "resource:monitor",
        "network:configure", "storage:configure",
        "system:configure", "system:monitor" },
    operator |->
      { "vm:start", "vm:stop", "vm:clone",
        "snapshot:create", "snapshot:revert",
        "host:monitor", "resource:monitor",
        "system:monitor" },
    viewer |->
      { "vm:list", "host:monitor", "resource:monitor", "system:monitor" } ]

\* cls.ROLES.get(user_role, []): the empty list for a role that is no key.
get_user_permissions(user_role) ==
  IF user_role \in DOMAIN table THEN table[user_role] ELSE {}

\* RBACManager.check_permission, with settings.enable_rbac passed in.
check_permission_bypass(rbac, user_role, required_permission) ==
  required_permission \in get_user_permissions(user_role)

check_permission_open(rbac, user_role, required_permission) ==
  IF ~rbac THEN TRUE
  ELSE user_role \notin DOMAIN table
       \/ required_permission \in get_user_permissions(user_role)

check_permission(rbac, user_role, required_permission) ==
  IF ~rbac THEN TRUE
  ELSE required_permission \in get_user_permissions(user_role)

\* The roles a caller may name: the three of the table and one that is not in it.
Roles == {"admin", "operator", "viewer", "guest"}

\* Every capability of the table, every capability an operation requires, and
\* one that no role holds and no operation requires.
Capabilities ==
  UNION {ROLES[r] : r \in DOMAIN ROLES} \cup {"vm:list", "audit:purge"}

(***************************************************************************)
(* Operation Catalog: the decorators and the gate of every operation.      *)
(***************************************************************************)
VmOps == { "list_vms", "get_vm_details", "start_vm", "stop_vm", "restart_vm",
           "clone_vm", "delete_vm", "migrate_vm" }
HostOps == { "list_hosts", "get_host_details", "enter_maintenance_mode",
             "exit_maintenance_mode", "reboot_host", "get_host_performance",
             "add_host_to_cluster" }
SnapshotOps == { "create_snapshot", "list_snapshots", "revert_snapshot",
                 "delete_snapshot", "delete_all_snapshots", "consolidate_snapshots" }
ResourceOps == { "get_cluster_resources", "modify_vm_resources",
                 "get_vm_resource_usage", "get_datastore_usage",
                 "create_resource_pool" }
Catalog == VmOps \cup HostOps \cup SnapshotOps \cup ResourceOps

\* The capability named in the operation's check_permission call.
RequiredPermission(op) ==
  CASE op \in {"list_vms", "get_vm_details", "list_snapshots"} -> "vm:list"
    [] op \in {"start_vm", "restart_vm"} -> "vm:start"
    [] op = "stop_vm" -> "vm:stop"
    [] op = "clone_vm" -> "vm:clone"
    [] op = "delete_vm" -> "vm:delete"
    [] op = "migrate_vm" -> "vm:migrate"
    [] op \in {"list_hosts", "get_host_details", "get_host_performance"} -> "host:monitor"
    [] op \in {"enter_maintenance_mode", "exit_maintenance_mode", "reboot_host"}
         -> "host:maintenance"
    [] op = "add_host_to_cluster" -> "host:add"
    [] op = "create_snapshot" -> "snapshot:create"
    [] op = "revert_snapshot" -> "snapshot:revert"
    [] op \in {"delete_snapshot", "delete_all_snapshots", "consolidate_snapshots"}
         -> "snapshot:delete"
    [] op \in {"get_cluster_resources", "get_vm_resource_usage", "get_datastore_usage"}
         -> "resource:monitor"
    [] op \in {"modify_vm_resources", "create_resource_pool"} -> "resource:allocate"

\* The text after "Insufficient permissions to " in the operation's AuthorizationError.
AuthorizationText(op) ==
  CASE op = "list_vms" -> "list VMs"
    [] op = "get_vm_details" -> "view VM details"
    [] op = "start_vm" -> "start VM"
    [] op = "stop_vm" -> "stop VM"
    [] op = "restart_vm" -> "restart VM"
    [] op = "clone_vm" -> "clone VM"
    [] op = "delete_vm" -> "delete VM"
    [] op = "migrate_vm" -> "migrate VM"
    [] op = "list_hosts" -> "list hosts"
    [] op = "get_host_details" -> "view host details"
    [] op = "enter_maintenance_mode" -> "enter maintenance mode"
    [] op = "exit_maintenance_mode" -> "exit maintenance mode"
    [] op = "reboot_host" -> "reboot host"
    [] op = "get_host_performance" -> "view host performance"
    [] op = "add_host_to_cluster" -> "add host"
    [] op = "create_snapshot" -> "create snapshot"
    [] op = "list_snapshots" -> "list snapshots"
    [] op = "revert_snapshot" -> "revert snapshot"
    [] op = "delete_snapshot" -> "delete snapshot"
    [] op = "delete_all_snapshots" -> "delete snapshots"
    [] op = "consolidate_snapshots" -> "consolidate snapshots"
    [] op = "get_cluster_resources" -> "view cluster resources"
    [] op = "modify_vm_resources" -> "modify VM resources"
    [] op = "get_vm_resource_usage" -> "view VM resource usage"
    [] op = "get_datastore_usage" -> "view datastore usage"
    [] op = "create_resource_pool" -> "create resource pool"

\* The text between "Failed to " and ": " in the operation's except clause.
FailureText(op) ==
  CASE op = "list_vms" -> "list VMs"
    [] op = "get_vm_details" -> "get VM details"
    [] op = "start_vm" -> "start VM"
    [] op = "stop_vm" -> "stop VM"
    [] op = "restart_vm" -> "restart VM"
    [] op = "clone_vm" -> "clone VM"
    [] op = "delete_vm" -> "delete VM"
    [] op = "migrate_vm" -> "migrate VM"
    [] op = "list_hosts" -> "list hosts"
    [] op = "get_host_details" -> "get host details"
    [] op = "enter_maintenance_mode" -> "enter maintenance mode"
    [] op = "exit_maintenance_mode" -> "exit maintenance mode"
    [] op = "reboot_host" -> "reboot host"
    [] op = "get_host_performance" -> "get host performance"
    [] op = "add_host_to_cluster" -> "add host to cluster"
    [] op = "create_snapshot" -> "create snapshot"
    [] op = "list_snapshots" -> "list snapshots"
    [] op = "revert_snapshot" -> "revert snapshot"
    [] op = "delete_snapshot" -> "delete snapshot"
    [] op = "delete_all_snapshots" -> "delete all snapshots"
    [] op = "consolidate_snapshots" -> "consolidate snapshots"
    [] op = "get_cluster_resources" -> "get cluster resources"
    [] op = "modify_vm_resources" -> "modify VM resources"
    [] op = "get_vm_resource_usage" -> "get VM resource usage"
    [] op = "get_datastore_usage" -> "get datastore usage"
    [] op = "create_resource_pool" -> "create resource pool"

\* The second argument of the operation's @audit_log.
ResourceType(op) ==
  CASE op \in VmOps -> "vm"
    [] op \in HostOps -> "host"
    [] op \in SnapshotOps -> "snapshot"
    [] op \in ResourceOps -> "resource"

\* The operations decorated with @async_retry(max_retries=2).
RetryableDeleteToo(op) == op \in {"start_vm", "stop_vm", "restart_vm", "delete_vm"}

Retryable(op) == op \in {"start_vm", "stop_vm", "restart_vm"}

\* The operation's @timeout_handler argument; without one,
\* timeout_seconds or settings.operation_timeout.
HandlerTimeout(op) ==
  CASE op \in {"clone_vm", "migrate_vm", "enter_maintenance_mode", "reboot_host",
               "create_snapshot", "revert_snapshot", "delete_snapshot"} ->
         LongOperationTimeout
    [] op \in {"delete_all_snapshots", "consolidate_snapshots"} -> SweepTimeout
    [] op = "add_host_to_cluster" -> AddHostTimeout
    [] OTHER -> OperationTimeout

\* The timeout the operation passes to wait_for_task_async; the same figures.
PollTimeout(op) == HandlerTimeout(op)

(***************************************************************************)
(* Names and their validation (utils.py).  A name is its sequence of       *)
(* characters.                                                             *)
(***************************************************************************)
Lower == { "a", "b", "c", "d", "e", "f", "g", "h", "i", "j", "k", "l", "m",
           "n", "o", "p", "q", "r", "s", "t", "u", "v", "w", "x", "y", "z" }
Upper == { "A", "B", "C", "D", "E", "F", "G", "H", "I", "J", "K", "L", "M",
           "N", "O", "P", "Q", "R", "S", "T", "U", "V", "W", "X", "Y", "Z" }
Digit == { "0", "1", "2", "3", "4", "5", "6", "7", "8", "9" }
Alnum == Lower \cup Upper \cup Digit

invalid_chars == { "/", "\\", ":", "*", "?", "\"", "<", ">", "|" }

validate_vm_name(vm_name) ==
  IF Len(vm_name) < 1 \/ Len(vm_name) > MaxNameLen THEN FALSE
  ELSE ~(\E i \in 1..Len(vm_name) : vm_name[i] \in invalid_chars)

\* The pattern of validate_host_name: labels of alphanumerics and inner
\* hyphens, at most 63 long, joined by single dots.
validate_host_name(host_name) ==
  IF Len(host_name) < 1 \/ Len(host_name) > MaxHostNameLen THEN FALSE
  ELSE /\ \A i \in 1..Len(host_name) : host_name[i] \in Alnum \cup {"-", "."}
       /\ host_name[1] \in Alnum
       /\ host_name[Len(host_name)] \in Alnum
       /\ \A i \in 1..Len(host_name) :
            host_name[i] = "." =>
              /\ i > 1 /\ host_name[i - 1] \in Alnum
              /\ i < Len(host_name) /\ host_name[i + 1] \in Alnum
       /\ \A i \in 1..(Len(host_name) - MaxLabelLen) :
            \E j \in i..(i + MaxLabelLen) : host_name[j] = "."

\* not name or len(name) > 80 (snapshot and resource pool names).
validate_plain_name(name) == Len(name) >= 1 /\ Len(name) <= MaxNameLen

RECURSIVE Str(_)
\* The name as text, for the messages that quote it.
Str(name) == IF name = <<>> THEN "" ELSE Head(name) \o Str(Tail(name))

\* The entity of the inventory, a valid name that names nothing, the empty
\* name, a name with a forbidden character, and a name one character too long.
EntityName == <<"v", "m">>
DatastoreName == <<"d", "s">>
AbsentName == <<"n", "o">>
LongName   == [i \in 1..(MaxNameLen + 1) |-> "a"]
Names      == { EntityName, AbsentName, <<>>, <<"a", "/">>, LongName }

(***************************************************************************)
(* Typed errors (exceptions.py) and outcomes.                              *)
(***************************************************************************)
None == [kind |-> "none"]
Ret(v) == [kind |-> "ret", val |-> v]
Exc(code, msg) == [kind |-> "exc", code |-> code, msg |-> msg]

VMwareMCPException(msg) == Exc("VMWARE_MCP_ERROR", msg)
AuthorizationError(msg) == Exc("AUTHZ_ERROR", msg)
ValidationError(msg)    == Exc("VALIDATION_ERROR", msg)
TimeoutError(msg)       == Exc("TIMEOUT_ERROR", msg)

\* The error class of the operation's module.
OperationErrorCode(op) ==
  CASE op \in VmOps -> "VM_OPERATION_ERROR"
    [] op \in HostOps -> "HOST_OPERATION_ERROR"
    [] op \in SnapshotOps -> "SNAPSHOT_OPERATION_ERROR"
    [] op \in ResourceOps -> "RESOURCE_OPERATION_ERROR"

OperationError(op, msg) == Exc(OperationErrorCode(op), msg)

\* except Exception as e: raise XOperationError(f"Failed to ...: {str(e)}")
ExceptClause(op, e) ==
  OperationError(op, "Failed to " \o FailureText(op) \o ": " \o e.msg)

\* What an exception of the audit sink looks like to the caller.
AuditSinkError == Exc("AUDIT_SINK_ERROR", "audit sink failure")

\* The part of the state that running code reads and writes, as one value.
Cur == [ now |-> now, args |-> args, stack |-> stack, tasks |-> tasks, vm |-> vm,
         audit |-> audit, events |-> events, origin |-> origin,
         wrapped |-> wrapped, outcome |-> outcome, nextId |-> nextId ]

\* call_tool, from the end of _execute_tool: the result, or the caught
\* exception, as the one TextContent it returns.  A text is the sequence of
\* the pieces it is put together from.
TextContent(text) == [type |-> "text", text |-> text]

\* str(result): the text of the value the operation returned.  Two results
\* have the same text only when they are equal.
str(v) == [str |-> v]

call_tool_result_lets_failures_through(o) ==
  IF o.kind = "ret" THEN <<TextContent(<<str(o.val)>>)>> ELSE <<>>

call_tool_result(o) ==
  IF o.kind = "ret"
  THEN <<TextContent(<<str(o.val)>>)>>
  ELSE <<TextContent(<<"Error: ", o.msg>>)>>

Install(st) ==
  /\ reply' = IF st.stack = <<>> THEN call_tool_result(st.outcome) ELSE <<>>
  /\ now' = st.now
  /\ args' = st.args
  /\ stack' = st.stack
  /\ tasks' = st.tasks
  /\ vm' = st.vm
  /\ audit' = st.audit
  /\ events' = st.events
  /\ origin' = st.origin
  /\ wrapped' = st.wrapped
  /\ outcome' = st.outcome
  /\ nextId' = st.nextId

(***************************************************************************)
(* Frames: one per decorated call, holding the position of its body and    *)
(* the locals of its three wrappers.                                       *)
(***************************************************************************)
NewFrame(op, id, t) ==
  [ op |-> op, id |-> id,
    pc |-> "body",          \* body | poll | sleep | call
    start |-> t,            \* audit_log: start_time
    attempt |-> 0,          \* async_retry: attempt
    delay |-> RetryDelay,   \* async_retry: current_delay
    armed |-> FALSE,        \* timeout_handler: the wait_for timer is pending
    deadline |-> 0,         \* timeout_handler: when it fires
    zombie |-> FALSE,       \* wait_for was cancelled from outside and waits for
                            \* its body to end before it passes the cancellation on
    wake |-> 0,             \* asyncio.sleep: when it ends
    resume |-> "",          \* where the body goes on after the sleep
    task |-> 0,             \* wait_for_task_async: task
    pollStart |-> 0,        \* wait_for_task_async: start_time
    pollTimeout |-> 0,      \* wait_for_task_async: timeout
    stage |-> "",           \* which await of the body is pending
    method |-> "",          \* stop_vm: method
    stopRes |-> None,       \* restart_vm: stop_result
    user_role |-> "",       \* the parameters user_role and force of the call
    force |-> FALSE ]

\* The frame of a call made with these values of user_role and force.
CalledWith(f, user_role, force) ==
  [f EXCEPT !.user_role = user_role, !.force = force]

Top(st) == st.stack[Len(st.stack)]
SetTop(st, f) == [st EXCEPT !.stack[Len(st.stack)] = f]
Pop(st) == [st EXCEPT !.stack = SubSeq(@, 1, Len(@) - 1)]

Log(st, ev, arg) ==
  [st EXCEPT !.events =
     Append(@, [ev |-> ev, arg |-> arg, inv |-> Top(st).id, op |-> Top(st).op])]

\* The calls that reach the management-plane client.
ClientCalls == {"get_service_instance", "lookup", "ShutdownGuest", "submit"}

\* await asyncio.sleep(d)
Sleep(st, d, resume) ==
  SetTop(st, [Top(st) EXCEPT !.pc = "sleep", !.wake = st.now + d, !.resume = resume])

\* task = entity.X_Task(...) followed by the entry of wait_for_task_async(task):
\* timeout = timeout or settings.operation_timeout; start_time = time.time().
Submit(st, kind, stage) ==
  LET s1 == Log(st, "submit", kind)
      s2 == [s1 EXCEPT !.tasks =
               Append(@, [kind |-> kind, state |-> "queued", result |-> "",
                          error |-> "", inv |-> Top(st).id,
                          waitStart |-> st.now,   \* when the wait for it began
                          waitTimeout |-> PollTimeout(Top(st).op),
                          polled |-> None,        \* what the wait ended with
                          polledAt |-> 0])]       \* and when
  IN SetTop(s2, [Top(s2) EXCEPT !.pc = "poll", !.task = Len(s2.tasks),
                                !.pollStart = st.now,
                                !.pollTimeout = PollTimeout(Top(st).op),
                                !.stage = stage])

TimeoutText(op) ==
  "Operation " \o op \o " timed out after " \o ToString(HandlerTimeout(op)) \o "s"

\* get_vm_by_name / get_host_by_name: the inventory holds one entity of each
\* kind, named EntityName; a destroyed virtual machine is no longer found.
Found(st, op, name) ==
  /\ name = EntityName
  /\ (op \in VmOps \cup SnapshotOps \cup ResourceOps) => st.vm.exists

(***************************************************************************)
(* The wrappers: timeout_handler, async_retry, audit_log (utils.py), in    *)
(* the order the decorators are stacked: audit_log outermost, then         *)
(* async_retry where present, then timeout_handler, then the body.         *)
(* Complete(st, o): the body of the top frame has ended with outcome o.    *)
(* Exec(st, env): the top frame runs from its pc to its next suspension.   *)
(***************************************************************************)
RECURSIVE Complete(_, _), Exec(_, _)

\* A raise outside the body's try block (the authorization and validation checks).
Raise(st, e) == Complete([st EXCEPT !.origin = e], e)

\* A raise inside the body's try block: the except clause re-raises it.
Fail(st, e) == Complete([st EXCEPT !.origin = e], ExceptClause(Top(st).op, e))

Return(st, v) == Complete(st, Ret(v))

\* The decorated operation op is called by the body of the top frame.
Call(st, op, stage, env) ==
  LET s1 == SetTop(st, [Top(st) EXCEPT !.pc = "call", !.stage = stage])
      callee == CalledWith(NewFrame(op, s1.nextId, s1.now), Top(st).user_role,
                           IF op = "stop_vm" THEN Top(st).force ELSE FALSE)
      s2 == [s1 EXCEPT !.stack = Append(@, callee), !.nextId = @ + 1]
  IN Exec(Log(s2, "enter", ""), env)

restart_vm_resume_ignores_stop_failure(st, out) ==
  LET f == Top(st) IN
  IF f.stage = "stop"
  THEN Sleep(SetTop(st, [f EXCEPT !.stopRes = out]), RestartPause, "afterPause")
  ELSE IF out.kind = "exc" THEN Complete(st, ExceptClause(f.op, out))
  ELSE Complete(st, Ret([ status |-> "restarted", vm_name |-> st.args.name,
                          stop_result |-> f.stopRes.val,
                          start_result |-> out.val ]))

\* restart_vm, from the return of one of its two calls.
restart_vm_resume(st, out) ==
  LET f == Top(st) IN
  IF out.kind = "exc" THEN Complete(st, ExceptClause(f.op, out))
  ELSE IF f.stage = "stop"
       THEN Sleep(SetTop(st, [f EXCEPT !.stopRes = out]), RestartPause, "afterPause")
       ELSE Complete(st, Ret([ status |-> "restarted", vm_name |-> st.args.name,
                               stop_result |-> f.stopRes.val,
                               start_result |-> out.val ]))

\* The decorated call of the top frame has ended: back to its caller.
Deliver(st, out) ==
  IF st.stack = <<>> THEN [st EXCEPT !.outcome = out]
  ELSE restart_vm_resume(st, out)

AuditRecord(f, o, t) ==
  IF o.kind = "ret"
  THEN [ operation |-> f.op, resource_type |-> ResourceType(f.op),
         status |-> "success", duration |-> t - f.start, inv |-> f.id ]
  ELSE [ operation |-> f.op, resource_type |-> ResourceType(f.op),
         status |-> "failed", error |-> o.msg, duration |-> t - f.start,
         inv |-> f.id ]

\* audit_log.wrapper, from the end of the call it wraps.  A logger that raises
\* raises in the try block on success, and again in the except clause.
Received(st, o) == IF Len(st.stack) = 1 THEN [st EXCEPT !.wrapped = o] ELSE st

audit_log(st, o) ==
  LET f == Top(st)
      out == IF sinkFaulty THEN AuditSinkError ELSE o
      s0 == Received(st, o)
      s1 == IF sinkFaulty THEN s0
            ELSE [s0 EXCEPT !.audit = Append(@, AuditRecord(f, o, st.now))]
      s2 == Log(s1, IF out.kind = "ret" THEN "return" ELSE "raise", "")
  IN Deliver(Pop(s2), out)

\* The sleep between two attempts of async_retry.wrapper.
Backoff_constant_delay(st) ==
  LET f == Top(st)
      s1 == Log(st, "backoff", ToString(f.delay))
  IN Sleep(SetTop(s1, [f EXCEPT !.attempt = @ + 1]), f.delay, "body")

Backoff(st) ==
  LET f == Top(st)
      s1 == Log(st, "backoff", ToString(f.delay))
  IN Sleep(SetTop(s1, [f EXCEPT !.attempt = @ + 1, !.delay = @ * RetryBackoff]),
           f.delay, "body")

\* async_retry.wrapper, from the end of one attempt.
async_retry_audits_attempts(st, o) ==
  LET f == Top(st) IN
  IF o.kind = "exc" /\ f.attempt < max_retries
  THEN Backoff([st EXCEPT !.audit = Append(@, AuditRecord(f, o, st.now))])
  ELSE audit_log(st, o)

async_retry_one_more(st, o) ==
  LET f == Top(st) IN
  IF o.kind = "exc" /\ f.attempt < max_retries + 1
  THEN Backoff(st)
  ELSE audit_log(st, o)

async_retry(st, o) ==
  LET f == Top(st) IN
  IF o.kind = "exc" /\ f.attempt < max_retries
  THEN Backoff(st)
  ELSE audit_log(st, o)

\* The wrappers above the body of the top frame, from the end of the body.
Complete(st, o) ==
  LET f == Top(st) IN
  IF f.zombie
  THEN \* wait_for re-raises the CancelledError it had received: the call is
       \* gone without a record, and the caller's wait_for, which had sent it,
       \* raises the TimeoutError.
       LET s1 == Pop(st)
           e == TimeoutError(TimeoutText(Top(s1).op))
       IN Complete([s1 EXCEPT !.origin = e], e)
  ELSE LET s1 == SetTop(st, [f EXCEPT !.armed = FALSE]) IN
       IF Retryable(f.op) THEN async_retry(s1, o) ELSE audit_log(s1, o)

(***************************************************************************)
(* The Poller (utils.py, wait_for_task_async) and what each body does with *)
(* the result of the task it awaited.                                      *)
(***************************************************************************)
\* modify_vm_resources: changes_made.
changes_made(a) ==
  (IF a.cpu_count # <<>>
   THEN <<"CPU count: " \o ToString(a.cpu_count[1])>> ELSE <<>>)
  \o (IF a.memory_mb # <<>>
      THEN <<"Memory: " \o ToString(a.memory_mb[1]) \o " MB">> ELSE <<>>)

\* The body of the top frame, from the return of wait_for_task_async.
AfterTask(st, result) ==
  LET f == Top(st) IN
  CASE f.stage = "start" ->
         Return(st, [ status |-> "started", vm_name |-> st.args.name,
                      task_result |-> result ])
    [] f.stage = "stop" ->
         Return(st, [ status |-> "stopped", vm_name |-> st.args.name,
                      method |-> f.method, task_result |-> result ])
    [] f.stage = "delete.power_off" ->
         Submit(st, "Destroy_Task", "delete.destroy")
    [] f.stage = "delete.destroy" ->
         Return(st, [ status |-> "deleted", vm_name |-> st.args.name,
                      task_result |-> result ])
    [] f.stage = "create" ->
         Return(st, [ status |-> "created", vm_name |-> st.args.name,
                      snapshot_name |-> st.args.name2, task_result |-> result ])
    [] f.stage = "clone" ->
         Return(st, [ status |-> "cloned", source_vm |-> st.args.name,
                      clone_name |-> st.args.name2, task_result |-> result ])
    [] f.stage = "modify" ->
         Return(st, [ status |-> "modified", vm_name |-> st.args.name,
                      changes |-> changes_made(st.args), task_result |-> result ])
    [] OTHER ->
         Return(st, [ status |-> "completed", task_result |-> result ])

\* wait_for_task_async returns or raises o: noted on the task it waited for.
Polled(st, o) ==
  [st EXCEPT !.tasks[Top(st).task].polled = o,
             !.tasks[Top(st).task].polledAt = st.now]

PollTimeoutError(f) ==
  TimeoutError("Task task-" \o ToString(f.task) \o " timed out after "
               \o ToString(f.pollTimeout) \o "s")

TaskFailed(task) == VMwareMCPException("Task failed: " \o task.error)

UnexpectedState(task) ==
  VMwareMCPException("Task ended with unexpected state: " \o task.state)

\* One pass of the while loop of wait_for_task_async, and what follows it.
wait_for_task_async_deadline_first(st) ==
  LET f == Top(st)
      task == st.tasks[f.task]
  IN IF st.now - f.pollStart > f.pollTimeout
     THEN Fail(Polled(st, PollTimeoutError(f)), PollTimeoutError(f))
     ELSE IF task.state \in {"running", "queued"}
     THEN Sleep(st, PollInterval, "poll")
     ELSE IF task.state = "success"
     THEN AfterTask(Polled(st, Ret(task.result)), task.result)
     ELSE IF task.state = "error"
     THEN Fail(Polled(st, TaskFailed(task)), TaskFailed(task))
     ELSE Fail(Polled(st, UnexpectedState(task)), UnexpectedState(task))

wait_for_task_async_trusts_any_end(st) ==
  LET f == Top(st)
      task == st.tasks[f.task]
  IN IF task.state \in {"running", "queued"}
     THEN IF st.now - f.pollStart > f.pollTimeout
          THEN Fail(Polled(st, PollTimeoutError(f)), PollTimeoutError(f))
          ELSE Sleep(st, PollInterval, "poll")
     ELSE AfterTask(Polled(st, Ret(task.result)), task.result)

wait_for_task_async_blocks(st) ==
  LET f == Top(st)
      task == st.tasks[f.task]
  IN IF task.state \in {"running", "queued"}
     THEN SetTop(st, [f EXCEPT !.pc = "blocked"])
     ELSE IF task.state = "success"
     THEN AfterTask(Polled(st, Ret(task.result)), task.result)
     ELSE IF task.state = "error"
     THEN Fail(Polled(st, TaskFailed(task)), TaskFailed(task))
     ELSE Fail(Polled(st, UnexpectedState(task)), UnexpectedState(task))

wait_for_task_async_checks_late(st) ==
  LET f == Top(st)
      task == st.tasks[f.task]
  IN IF task.state \in {"running", "queued"}
     THEN IF st.now - f.pollStart > f.pollTimeout + PollInterval
          THEN Fail(Polled(st, PollTimeoutError(f)), PollTimeoutError(f))
          ELSE Sleep(st, PollInterval, "poll")
     ELSE IF task.state = "success"
     THEN AfterTask(Polled(st, Ret(task.result)), task.result)
     ELSE IF task.state = "error"
     THEN Fail(Polled(st, TaskFailed(task)), TaskFailed(task))
     ELSE Fail(Polled(st, UnexpectedState(task)), UnexpectedState(task))

wait_for_task_async(st) ==
  LET f == Top(st)
      task == st.tasks[f.task]
  IN IF task.state \in {"running", "queued"}
     THEN IF st.now - f.pollStart > f.pollTimeout
          THEN Fail(Polled(st, PollTimeoutError(f)), PollTimeoutError(f))
          ELSE Sleep(st, PollInterval, "poll")
     ELSE IF task.state = "success"
     THEN AfterTask(Polled(st, Ret(task.result)), task.result)
     ELSE IF task.state = "error"
     THEN Fail(Polled(st, TaskFailed(task)), TaskFailed(task))
     ELSE Fail(Polled(st, UnexpectedState(task)), UnexpectedState(task))

(***************************************************************************)
(* The bodies (vm_operations.py), each from the start of an attempt to its *)
(* first suspension.                                                       *)
(***************************************************************************)
\* The checks every VM body makes before it acts: authorization, the name,
\* the connection, the lookup.  done: the body has ended in one of them.
VmPrelude_connects_first(st) ==
  LET op == Top(st).op
      a == st.args
      s1 == Log(st, "get_service_instance", "")
      s2 == Log(s1, "authorize", RequiredPermission(op))
      s3 == Log(s2, "validate", "")
      s4 == Log(s3, "lookup", Str(a.name))
  IN IF ~si
     THEN [ done |-> TRUE,
            st |-> Fail(s1, OperationError(op, "No active VMware connection")) ]
     ELSE IF ~check_permission(enable_rbac, Top(st).user_role, RequiredPermission(op))
     THEN [ done |-> TRUE,
            st |-> Raise(s2, AuthorizationError("Insufficient permissions to "
                                                 \o AuthorizationText(op))) ]
     ELSE IF ~validate_vm_name(a.name)
     THEN [ done |-> TRUE,
            st |-> Raise(s3, ValidationError("Invalid VM name: " \o Str(a.name))) ]
     ELSE IF ~Found(s4, op, a.name)
     THEN [ done |-> TRUE,
            st |-> Fail(s4, OperationError(op, "VM '" \o Str(a.name) \o "' not found")) ]
     ELSE [ done |-> FALSE, st |-> s4 ]

VmPrelude(st) ==
  LET op == Top(st).op
      a == st.args
      s1 == Log(st, "authorize", RequiredPermission(op))
      s2 == Log(s1, "validate", "")
      s3 == Log(s2, "get_service_instance", "")
      s4 == Log(s3, "lookup", Str(a.name))
  IN IF ~check_permission(enable_rbac, Top(st).user_role, RequiredPermission(op))
     THEN [ done |-> TRUE,
            st |-> Raise(s1, AuthorizationError("Insufficient permissions to "
                                                 \o AuthorizationText(op))) ]
     ELSE IF ~validate_vm_name(a.name)
     THEN [ done |-> TRUE,
            st |-> Raise(s2, ValidationError("Invalid VM name: " \o Str(a.name))) ]
     ELSE IF ~si
     THEN [ done |-> TRUE,
            st |-> Fail(s3, OperationError(op, "No active VMware connection")) ]
     ELSE IF ~Found(s4, op, a.name)
     THEN [ done |-> TRUE,
            st |-> Fail(s4, OperationError(op, "VM '" \o Str(a.name) \o "' not found")) ]
     ELSE [ done |-> FALSE, st |-> s4 ]

start_vm_always_powers_on(st) ==
  LET p == VmPrelude(st) IN
  IF p.done THEN p.st
  ELSE Submit(p.st, "PowerOnVM_Task", "start")

start_vm(st) ==
  LET p == VmPrelude(st) IN
  IF p.done THEN p.st
  ELSE IF p.st.vm.power = "poweredOn"
  THEN Return(p.st, [status |-> "already_running", vm_name |-> st.args.name])
  ELSE Submit(p.st, "PowerOnVM_Task", "start")

SetMethod(st, m) == SetTop(st, [Top(st) EXCEPT !.method = m])

stop_vm(st, env) ==
  LET p == VmPrelude(st) IN
  IF p.done THEN p.st
  ELSE IF p.st.vm.power = "poweredOff"
  THEN Return(p.st, [status |-> "already_stopped", vm_name |-> st.args.name])
  ELSE IF Top(st).force
  THEN Submit(SetMethod(p.st, "force_stop"), "PowerOffVM_Task", "stop")
  ELSE LET s5 == Log(p.st, "ShutdownGuest", "") IN
       IF env.guestRaises
       THEN \* except: the graceful shutdown failed
            Submit(SetMethod(s5, "force_stop_fallback"), "PowerOffVM_Task", "stop")
       ELSE Sleep(SetMethod([s5 EXCEPT !.vm.shutdownRequested = TRUE],
                            "graceful_shutdown"),
                  GraceSleep, "afterGrace")

\* stop_vm, from the end of asyncio.sleep(5).
stop_vm_after_grace_trusts_guest(st) ==
  Return(st, [ status |-> "stopped", vm_name |-> st.args.name,
               method |-> Top(st).method ])

stop_vm_after_grace(st) ==
  IF st.vm.power = "poweredOn"
  THEN Submit(SetMethod(st, "force_stop_fallback"), "PowerOffVM_Task", "stop")
  ELSE Return(st, [ status |-> "stopped", vm_name |-> st.args.name,
                    method |-> Top(st).method ])

\* stop_vm, when a CancelledError is thrown into asyncio.sleep(5): the bare
\* except clause around the sleep catches it and the body goes on.
stop_vm_cancelled_in_grace(st) ==
  Submit(SetMethod(st, "force_stop_fallback"), "PowerOffVM_Task", "stop")

restart_vm(st, env) ==
  LET op == Top(st).op
      s1 == Log(st, "authorize", RequiredPermission(op))
  IN IF ~check_permission(enable_rbac, Top(st).user_role, RequiredPermission(op))
     THEN Raise(s1, AuthorizationError("Insufficient permissions to "
                                        \o AuthorizationText(op)))
     ELSE Call(s1, "stop_vm", "stop", env)

delete_vm_destroys_at_once(st) ==
  LET p == VmPrelude(st) IN
  IF p.done THEN p.st
  ELSE IF p.st.vm.power = "poweredOn"
  THEN Submit(Submit(p.st, "PowerOffVM_Task", "delete.power_off"),
              "Destroy_Task", "delete.destroy")
  ELSE Submit(p.st, "Destroy_Task", "delete.destroy")

delete_vm(st) ==
  LET p == VmPrelude(st) IN
  IF p.done THEN p.st
  ELSE IF p.st.vm.power = "poweredOn"
  THEN Submit(p.st, "PowerOffVM_Task", "delete.power_off")
  ELSE Submit(p.st, "Destroy_Task", "delete.destroy")

(***************************************************************************)
(* The other operations of the catalog, by what they share: the gate, the  *)
(* connection, the lookup of the named entity, the operation's own checks  *)
(* of the remote state (drawn as env.domain: go on, return a no-op value,  *)
(* or raise), and for the operations that change something one task,       *)
(* submitted and polled.                                                   *)
(***************************************************************************)
NamesVm == { "get_vm_details", "clone_vm", "migrate_vm", "create_snapshot",
             "list_snapshots", "revert_snapshot", "delete_snapshot",
             "delete_all_snapshots", "consolidate_snapshots",
             "modify_vm_resources", "get_vm_resource_usage" }
NamesHost == { "get_host_details", "enter_maintenance_mode", "exit_maintenance_mode",
               "reboot_host", "get_host_performance", "add_host_to_cluster" }

ValidationFailure_exclusive_bounds(op, a) ==
  CASE op = "modify_vm_resources" ->
         IF ~validate_vm_name(a.name)
         THEN ValidationError("Invalid VM name: " \o Str(a.name))
         ELSE IF a.cpu_count # <<>> /\ (a.cpu_count[1] <= 1 \/ a.cpu_count[1] >= 128)
         THEN ValidationError("CPU count must be between 1 and 128")
         ELSE IF a.memory_mb # <<>>
                 /\ (a.memory_mb[1] < 4 \/ a.memory_mb[1] > 1048576)
         THEN ValidationError("Memory must be between 4 MB and 1 TB")
         ELSE None
    [] op = "clone_vm" ->
         IF ~validate_vm_name(a.name) \/ ~validate_vm_name(a.name2)
         THEN ValidationError("Invalid VM name format") ELSE None
    [] op = "create_snapshot" ->
         IF ~validate_vm_name(a.name)
         THEN ValidationError("Invalid VM name: " \o Str(a.name))
         ELSE IF ~validate_plain_name(a.name2)
         THEN ValidationError("Snapshot name must be 1-80 characters") ELSE None
    [] op = "create_resource_pool" ->
         IF ~validate_plain_name(a.name)
         THEN ValidationError("Resource pool name must be 1-80 characters") ELSE None
    [] op \in NamesVm \ {"clone_vm", "create_snapshot", "modify_vm_resources"} ->
         IF ~validate_vm_name(a.name)
         THEN ValidationError("Invalid VM name: " \o Str(a.name)) ELSE None
    [] op \in NamesHost ->
         IF ~validate_host_name(a.name)
         THEN ValidationError("Invalid host name: " \o Str(a.name)) ELSE None
    [] OTHER -> None

\* The ValidationError of the operation's input checks, None when they pass.
\* An optional argument is <<>> when it is not given (None), <<v>> when it is.
ValidationFailure(op, a) ==
  CASE op = "modify_vm_resources" ->
         IF ~validate_vm_name(a.name)
         THEN ValidationError("Invalid VM name: " \o Str(a.name))
         ELSE IF a.cpu_count # <<>> /\ (a.cpu_count[1] < 1 \/ a.cpu_count[1] > 128)
         THEN ValidationError("CPU count must be between 1 and 128")
         ELSE IF a.memory_mb # <<>>
                 /\ (a.memory_mb[1] < 4 \/ a.memory_mb[1] > 1048576)
         THEN ValidationError("Memory must be between 4 MB and 1 TB")
         ELSE None
    [] op = "clone_vm" ->
         IF ~validate_vm_name(a.name) \/ ~validate_vm_name(a.name2)
         THEN ValidationError("Invalid VM name format") ELSE None
    [] op = "create_snapshot" ->
         IF ~validate_vm_name(a.name)
         THEN ValidationError("Invalid VM name: " \o Str(a.name))
         ELSE IF ~validate_plain_name(a.name2)
         THEN ValidationError("Snapshot name must be 1-80 characters") ELSE None
    [] op = "create_resource_pool" ->
         IF ~validate_plain_name(a.name)
         THEN ValidationError("Resource pool name must be 1-80 characters") ELSE None
    [] op \in NamesVm \ {"clone_vm", "create_snapshot", "modify_vm_resources"} ->
         IF ~validate_vm_name(a.name)
         THEN ValidationError("Invalid VM name: " \o Str(a.name)) ELSE None
    [] op \in NamesHost ->
         IF ~validate_host_name(a.name)
         THEN ValidationError("Invalid host name: " \o Str(a.name)) ELSE None
    [] OTHER -> None

\* The operations that look the named entity up with get_vm_by_name or
\* get_host_by_name.
HasLookup(op) == op \in (NamesVm \cup NamesHost) \ {"add_host_to_cluster"}

NotFoundText(op, name) ==
  (CASE op \in HostOps -> "Host '"
     [] op = "clone_vm" -> "Source VM '"
     [] OTHER -> "VM '") \o Str(name) \o "' not found"

\* The task the operation submits and polls; "" for the read operations.
TaskKind(op) ==
  CASE op = "clone_vm" -> "CloneVM_Task"
    [] op = "migrate_vm" -> "RelocateVM_Task"
    [] op = "enter_maintenance_mode" -> "EnterMaintenanceMode_Task"
    [] op = "exit_maintenance_mode" -> "ExitMaintenanceMode_Task"
    [] op = "reboot_host" -> "RebootHost_Task"
    [] op = "add_host_to_cluster" -> "AddHost_Task"
    [] op = "create_snapshot" -> "CreateSnapshot_Task"
    [] op = "revert_snapshot" -> "RevertToSnapshot_Task"
    [] op = "delete_snapshot" -> "RemoveSnapshot_Task"
    [] op = "delete_all_snapshots" -> "RemoveAllSnapshots_Task"
    [] op = "consolidate_snapshots" -> "ConsolidateVMDisks_Task"
    [] op = "modify_vm_resources" -> "ReconfigVM_Task"
    [] op = "create_resource_pool" -> "CreateResourcePool"
    [] OTHER -> ""

catalog_operation(st, env) ==
  LET op == Top(st).op
      a == st.args
      s1 == Log(st, "authorize", RequiredPermission(op))
      s2 == IF op \in NamesVm \cup NamesHost \cup {"create_resource_pool"}
            THEN Log(s1, "validate", "") ELSE s1
      s3 == Log(s2, "get_service_instance", "")
      s4 == IF HasLookup(op) THEN Log(s3, "lookup", Str(a.name)) ELSE s3
  IN IF ~check_permission(enable_rbac, a.role, RequiredPermission(op))
     THEN Raise(s1, AuthorizationError("Insufficient permissions to "
                                        \o AuthorizationText(op)))
     ELSE IF ValidationFailure(op, a) # None
     THEN Raise(s2, ValidationFailure(op, a))
     ELSE IF ~si
     THEN Fail(s3, OperationError(op, "No active VMware connection"))
     ELSE IF HasLookup(op) /\ ~Found(s4, op, a.name)
     THEN Fail(s4, OperationError(op, NotFoundText(op, a.name)))
     ELSE IF env.domain = "reject"
     THEN Fail(s4, OperationError(op, "not applicable in the current state"))
     ELSE IF env.domain = "noop"
     THEN Return(s4, [status |-> "no_op"])
     ELSE IF TaskKind(op) # ""
     THEN Submit(s4, TaskKind(op), "task")
     ELSE Return(s4, [status |-> "ok"])

\* clone_spec as clone_vm hands it to CloneVM_Task.
CloneSpec(a) ==
  "powerOn=False, template=False"
    \o (IF a.datastore_name # <<>>
        THEN ", location.datastore=" \o Str(a.datastore_name) ELSE "")

\* clone_vm (vm_operations.py).  get_vm_by_name(content, clone_name) finds the
\* entity of the inventory, get_datastore_by_name the one datastore.
clone_vm_checks_source_only(st) ==
  LET op == Top(st).op
      a == st.args
      s1 == Log(st, "authorize", RequiredPermission(op))
      s2 == Log(s1, "validate", "")
      s3 == Log(s2, "get_service_instance", "")
      s4 == Log(s3, "lookup", Str(a.name))
      s5 == s4
      s6 == IF a.datastore_name # <<>>
            THEN Log(s5, "lookup", Str(a.datastore_name)) ELSE s5
  IN IF ~check_permission(enable_rbac, a.role, RequiredPermission(op))
     THEN Raise(s1, AuthorizationError("Insufficient permissions to "
                                        \o AuthorizationText(op)))
     ELSE IF ValidationFailure(op, a) # None
     THEN Raise(s2, ValidationFailure(op, a))
     ELSE IF ~si
     THEN Fail(s3, OperationError(op, "No active VMware connection"))
     ELSE IF ~Found(s4, op, a.name)
     THEN Fail(s4, OperationError(op, NotFoundText(op, a.name)))
     ELSE IF a.datastore_name # <<>> /\ a.datastore_name # DatastoreName
     THEN Fail(s6, OperationError(op, "Datastore '" \o Str(a.datastore_name)
                                       \o "' not found"))
     ELSE Submit(Log(s6, "CloneSpec", CloneSpec(a)), "CloneVM_Task", "clone")

clone_vm(st) ==
  LET op == Top(st).op
      a == st.args
      s1 == Log(st, "authorize", RequiredPermission(op))
      s2 == Log(s1, "validate", "")
      s3 == Log(s2, "get_service_instance", "")
      s4 == Log(s3, "lookup", Str(a.name))
      s5 == Log(s4, "lookup", Str(a.name2))
      s6 == IF a.datastore_name # <<>>
            THEN Log(s5, "lookup", Str(a.datastore_name)) ELSE s5
  IN IF ~check_permission(enable_rbac, a.role, RequiredPermission(op))
     THEN Raise(s1, AuthorizationError("Insufficient permissions to "
                                        \o AuthorizationText(op)))
     ELSE IF ValidationFailure(op, a) # None
     THEN Raise(s2, ValidationFailure(op, a))
     ELSE IF ~si
     THEN Fail(s3, OperationError(op, "No active VMware connection"))
     ELSE IF ~Found(s4, op, a.name)
     THEN Fail(s4, OperationError(op, NotFoundText(op, a.name)))
     ELSE IF Found(s5, op, a.name2)
     THEN Fail(s5, OperationError(op, "VM with name '" \o Str(a.name2)
                                       \o "' already exists"))
     ELSE IF a.datastore_name # <<>> /\ a.datastore_name # DatastoreName
     THEN Fail(s6, OperationError(op, "Datastore '" \o Str(a.datastore_name)
                                       \o "' not found"))
     ELSE Submit(Log(s6, "CloneSpec", CloneSpec(a)), "CloneVM_Task", "clone")

\* modify_vm_resources (resource_operations.py).
modify_vm_resources(st) ==
  LET op == Top(st).op
      a == st.args
      s1 == Log(st, "authorize", RequiredPermission(op))
      s2 == Log(s1, "validate", "")
      s3 == Log(s2, "get_service_instance", "")
      s4 == Log(s3, "lookup", Str(a.name))
  IN IF ~check_permission(enable_rbac, a.role, RequiredPermission(op))
     THEN Raise(s1, AuthorizationError("Insufficient permissions to "
                                        \o AuthorizationText(op)))
     ELSE IF ValidationFailure(op, a) # None
     THEN Raise(s2, ValidationFailure(op, a))
     ELSE IF ~si
     THEN Fail(s3, OperationError(op, "No active VMware connection"))
     ELSE IF ~Found(s4, op, a.name)
     THEN Fail(s4, OperationError(op, NotFoundText(op, a.name)))
     ELSE IF changes_made(a) = <<>>
     THEN Return(s4, [ status |-> "no_changes", vm_name |-> a.name,
                       message |-> "No resource changes specified" ])
     ELSE Submit(s4, "ReconfigVM_Task", "modify")

(***************************************************************************)
(* Snapshot trees (snapshot_operations.py).  A node is a                   *)
(* vim.vm.SnapshotTree: its name, its snapshot (here a number) and the     *)
(* list of its children.                                                   *)
(***************************************************************************)
SnapshotTree(id, name, children) ==
  [snapshot |-> id, name |-> name, childSnapshotList |-> children]

\* The rootSnapshotList the invocation may find: <<>> stands for a virtual
\* machine whose snapshot property is unset.
SnapshotTrees ==
  { <<>>,
    << SnapshotTree(1, <<"s">>, <<>>) >>,
    << SnapshotTree(1, <<"a">>, << SnapshotTree(2, <<"b">>, <<>>),
                                   SnapshotTree(3, <<"s">>, <<>>) >>),
       SnapshotTree(4, <<"s">>, << SnapshotTree(5, <<"d">>, <<>>) >>) >>,
    << SnapshotTree(1, <<"a">>, << SnapshotTree(2, <<"b">>,
                                     << SnapshotTree(3, <<"e">>, <<>>) >>) >>),
       SnapshotTree(4, <<"c">>, <<>>) >> }

\* _find_snapshot_by_name: the snapshot found (<<>> for None) and the nodes
\* whose name was compared, in order.
RECURSIVE find_snapshot_by_name_roots_only(_, _)
find_snapshot_by_name_roots_only(snapshots, snapshot_name) ==
  IF snapshots = <<>> THEN [snapshot |-> <<>>, visited |-> <<>>]
  ELSE LET snapshot == Head(snapshots) IN
       IF snapshot.name = snapshot_name
       THEN [snapshot |-> <<snapshot.snapshot>>, visited |-> <<snapshot.snapshot>>]
       ELSE LET rest == find_snapshot_by_name_roots_only(Tail(snapshots), snapshot_name)
            IN [ snapshot |-> rest.snapshot,
                 visited |-> <<snapshot.snapshot>> \o rest.visited ]

RECURSIVE find_snapshot_by_name_last_root_first(_, _)
find_snapshot_by_name_last_root_first(snapshots, snapshot_name) ==
  IF snapshots = <<>> THEN [snapshot |-> <<>>, visited |-> <<>>]
  ELSE LET snapshot == snapshots[Len(snapshots)] IN
       IF snapshot.name = snapshot_name
       THEN [snapshot |-> <<snapshot.snapshot>>, visited |-> <<snapshot.snapshot>>]
       ELSE LET child_result ==
                  find_snapshot_by_name_last_root_first(snapshot.childSnapshotList,
                                                        snapshot_name)
            IN IF child_result.snapshot # <<>>
               THEN [ snapshot |-> child_result.snapshot,
                      visited |-> <<snapshot.snapshot>> \o child_result.visited ]
               ELSE LET rest == find_snapshot_by_name_last_root_first(
                                  SubSeq(snapshots, 1, Len(snapshots) - 1),
                                  snapshot_name)
                    IN [ snapshot |-> rest.snapshot,
                         visited |-> <<snapshot.snapshot>> \o child_result.visited
                                     \o rest.visited ]

RECURSIVE find_snapshot_by_name(_, _)
find_snapshot_by_name(snapshots, snapshot_name) ==
  IF snapshots = <<>> THEN [snapshot |-> <<>>, visited |-> <<>>]
  ELSE LET snapshot == Head(snapshots) IN
       IF snapshot.name = snapshot_name
       THEN [snapshot |-> <<snapshot.snapshot>>, visited |-> <<snapshot.snapshot>>]
       ELSE LET child_result ==
                  find_snapshot_by_name(snapshot.childSnapshotList, snapshot_name)
            IN IF child_result.snapshot # <<>>
               THEN [ snapshot |-> child_result.snapshot,
                      visited |-> <<snapshot.snapshot>> \o child_result.visited ]
               ELSE LET rest == find_snapshot_by_name(Tail(snapshots), snapshot_name)
                    IN [ snapshot |-> rest.snapshot,
                         visited |-> <<snapshot.snapshot>> \o child_result.visited
                                     \o rest.visited ]

\* _get_all_snapshot_names
RECURSIVE get_all_snapshot_names(_)
get_all_snapshot_names(snapshots) ==
  IF snapshots = <<>> THEN <<>>
  ELSE <<Head(snapshots).name>>
       \o get_all_snapshot_names(Head(snapshots).childSnapshotList)
       \o get_all_snapshot_names(Tail(snapshots))

\* The snapshots of all the nodes of the tree.
RECURSIVE AllSnapshots(_)
AllSnapshots(snapshots) ==
  IF snapshots = <<>> THEN {}
  ELSE {Head(snapshots).snapshot}
       \cup AllSnapshots(Head(snapshots).childSnapshotList)
       \cup AllSnapshots(Tail(snapshots))

RECURSIVE LogVisits(_, _)
LogVisits(st, visited) ==
  IF visited = <<>> THEN st
  ELSE LogVisits(Log(st, "visit", ToString(Head(visited))), Tail(visited))

\* delete_snapshot (snapshot_operations.py).  The event "on" names the
\* snapshot whose method submits the task.
delete_snapshot(st, env) ==
  LET op == Top(st).op
      a == st.args
      s1 == Log(st, "authorize", RequiredPermission(op))
      s2 == Log(s1, "validate", "")
      s3 == Log(s2, "get_service_instance", "")
      s4 == Log(s3, "lookup", Str(a.name))
      found == find_snapshot_by_name(env.tree, a.name2)
      s5 == LogVisits(s4, found.visited)
  IN IF ~check_permission(enable_rbac, a.role, RequiredPermission(op))
     THEN Raise(s1, AuthorizationError("Insufficient permissions to "
                                        \o AuthorizationText(op)))
     ELSE IF ~validate_vm_name(a.name)
     THEN Raise(s2, ValidationError("Invalid VM name: " \o Str(a.name)))
     ELSE IF ~si
     THEN Fail(s3, OperationError(op, "No active VMware connection"))
     ELSE IF ~Found(s4, op, a.name)
     THEN Fail(s4, OperationError(op, NotFoundText(op, a.name)))
     ELSE IF env.tree = <<>>
     THEN Fail(s4, OperationError(op, "VM '" \o Str(a.name) \o "' has no snapshots"))
     ELSE IF found.snapshot = <<>>
     THEN Fail(s5, OperationError(op, "Snapshot '" \o Str(a.name2) \o "' not found"))
     ELSE Submit(Log(s5, "on", ToString(found.snapshot[1])),
                 "RemoveSnapshot_Task", "task")

\* revert_snapshot (snapshot_operations.py).
revert_snapshot(st, env) ==
  LET op == Top(st).op
      a == st.args
      s1 == Log(st, "authorize", RequiredPermission(op))
      s2 == Log(s1, "validate", "")
      s3 == Log(s2, "get_service_instance", "")
      s4 == Log(s3, "lookup", Str(a.name))
      found == find_snapshot_by_name(env.tree, a.name2)
      s5 == LogVisits(s4, found.visited)
  IN IF ~check_permission(enable_rbac, a.role, RequiredPermission(op))
     THEN Raise(s1, AuthorizationError("Insufficient permissions to "
                                        \o AuthorizationText(op)))
     ELSE IF ~validate_vm_name(a.name)
     THEN Raise(s2, ValidationError("Invalid VM name: " \o Str(a.name)))
     ELSE IF ~si
     THEN Fail(s3, OperationError(op, "No active VMware connection"))
     ELSE IF ~Found(s4, op, a.name)
     THEN Fail(s4, OperationError(op, NotFoundText(op, a.name)))
     ELSE IF env.tree = <<>>
     THEN Fail(s4, OperationError(op, "VM '" \o Str(a.name) \o "' has no snapshots"))
     ELSE IF found.snapshot = <<>>
     THEN Fail(s5, OperationError(op, "Snapshot '" \o Str(a.name2) \o "' not found"))
     ELSE Submit(Log(s5, "on", ToString(found.snapshot[1])),
                 "RevertToSnapshot_Task", "task")

\* create_snapshot (snapshot_operations.py).  env.tree is
\* vm.snapshot.rootSnapshotList, <<>> when vm.snapshot is unset.
create_snapshot(st, env) ==
  LET op == Top(st).op
      a == st.args
      s1 == Log(st, "authorize", RequiredPermission(op))
      s2 == Log(s1, "validate", "")
      s3 == Log(s2, "get_service_instance", "")
      s4 == Log(s3, "lookup", Str(a.name))
      existing_snapshots ==
        IF env.tree # <<>> THEN get_all_snapshot_names(env.tree) ELSE <<>>
  IN IF ~check_permission(enable_rbac, a.role, RequiredPermission(op))
     THEN Raise(s1, AuthorizationError("Insufficient permissions to "
                                        \o AuthorizationText(op)))
     ELSE IF ValidationFailure(op, a) # None
     THEN Raise(s2, ValidationFailure(op, a))
     ELSE IF ~si
     THEN Fail(s3, OperationError(op, "No active VMware connection"))
     ELSE IF ~Found(s4, op, a.name)
     THEN Fail(s4, OperationError(op, NotFoundText(op, a.name)))
     ELSE IF \E i \in DOMAIN existing_snapshots : existing_snapshots[i] = a.name2
     THEN Fail(s4, OperationError(op, "Snapshot '" \o Str(a.name2)
                                       \o "' already exists"))
     ELSE Submit(s4, "CreateSnapshot_Task", "create")

\* timeout_handler.wrapper: asyncio.wait_for(func(...), timeout=timeout), then
\* the body of the operation.
timeout_handler(st, env) ==
  LET f == Top(st)
      s1 == SetTop(st, [f EXCEPT !.armed = TRUE,
                                 !.deadline = st.now + HandlerTimeout(f.op)])
  IN CASE f.op = "start_vm" -> start_vm(s1)
       [] f.op = "stop_vm" -> stop_vm(s1, env)
       [] f.op = "restart_vm" -> restart_vm(s1, env)
       [] f.op = "delete_vm" -> delete_vm(s1)
       [] f.op = "clone_vm" -> clone_vm(s1)
       [] f.op = "modify_vm_resources" -> modify_vm_resources(s1)
       [] f.op = "delete_snapshot" -> delete_snapshot(s1, env)
       [] f.op = "revert_snapshot" -> revert_snapshot(s1, env)
       [] f.op = "create_snapshot" -> create_snapshot(s1, env)
       [] OTHER -> catalog_operation(s1, env)

Exec(st, env) ==
  LET f == Top(st) IN
  CASE f.pc = "body" -> timeout_handler(st, env)
    [] f.pc = "poll" -> wait_for_task_async(st)
    [] f.pc = "afterGrace" -> stop_vm_after_grace(st)
    [] f.pc = "afterPause" -> Call(st, "start_vm", "start", env)

(***************************************************************************)
(* Inputs.                                                                 *)
(***************************************************************************)
\* What the remote plane answers to the calls of one step: whether
\* ShutdownGuest raises, and how the operation's own checks come out.
Oracles == [ guestRaises : BOOLEAN, domain : {"proceed", "noop", "reject"},
             tree : SnapshotTrees ]

ArgSpace(op) ==
  [ role : Roles,
    name : IF op \in VmOps \cup NamesVm \cup NamesHost \cup {"create_resource_pool"}
                 /\ op # "list_vms"
           THEN Names ELSE {<<>>},
    name2 : CASE op = "clone_vm" -> {AbsentName, <<"a", "/">>, EntityName}
              [] op = "create_snapshot" -> {<<"s">>, <<>>}
              [] op \in {"delete_snapshot", "revert_snapshot"} -> {<<"s">>, <<"x">>}
              [] OTHER -> {<<>>},
    force : IF op \in {"stop_vm", "restart_vm"} THEN BOOLEAN ELSE {FALSE},
    cpu_count : IF op = "modify_vm_resources" THEN {<<>>, <<4>>, <<0>>} ELSE {<<>>},
    memory_mb : IF op = "modify_vm_resources" THEN {<<>>, <<2048>>} ELSE {<<>>},
    datastore_name : IF op = "clone_vm" THEN {<<>>, DatastoreName, AbsentName}
                     ELSE {<<>>} ]

NoArgs == [ role |-> "", name |-> <<>>, name2 |-> <<>>, force |-> FALSE,
            cpu_count |-> <<>>, memory_mb |-> <<>>, datastore_name |-> <<>> ]

\* The ways the remote plane treats one invocation.  fate: the end state of
\* the tasks that do not succeed ("stuck": none at all); laterStuck: of these
\* tasks only the first ends, in state fate, and the later ones never end;
\* guest: what the guest does with ShutdownGuest; tree: the snapshot tree
\* delete_snapshot finds.
Plans ==
  [ delay : 0..MaxTaskDelay, firstFault : 1..MaxFirstFault,
    faultCount : 0..MaxFaultCount, fate : {"error", "unknown", "stuck"},
    laterStuck : BOOLEAN, guest : {"raises", "shuts", "ignores"},
    tree : SnapshotTrees ]

NoPlan == [ delay |-> 0, firstFault |-> 1, faultCount |-> 0, fate |-> "error",
            laterStuck |-> FALSE, guest |-> "shuts", tree |-> <<>> ]

\* The invocation gets as far as the operation's own work on the remote
\* plane (or further).
PassesChecks(op, a) ==
  /\ check_permission(enable_rbac, a.role, RequiredPermission(op))
  /\ op \in {"start_vm", "stop_vm", "restart_vm", "delete_vm"}
       => validate_vm_name(a.name)
  /\ ValidationFailure(op, a) = None
  /\ si
  /\ (op \in {"start_vm", "stop_vm", "restart_vm", "delete_vm"} \/ HasLookup(op))
       => Found([vm |-> vm], op, a.name)

SubmitsTask(op, a) ==
  /\ PassesChecks(op, a)
  /\ CASE op = "start_vm" -> vm.power = "poweredOff"
       [] op = "stop_vm" -> vm.power = "poweredOn"
       [] op \in {"restart_vm", "delete_vm"} -> TRUE
       [] op = "modify_vm_resources" -> changes_made(a) # <<>>
       [] op = "clone_vm" -> /\ ~Found([vm |-> vm], op, a.name2)
                             /\ a.datastore_name \in {<<>>, DatastoreName}
       [] OTHER -> TaskKind(op) # ""

\* One input for each way that differs in what the operation can see.
DomainsFor(op, a) ==
  IF op \in {"start_vm", "stop_vm", "restart_vm", "delete_vm", "modify_vm_resources",
             "delete_snapshot", "revert_snapshot", "clone_vm", "create_snapshot"}
     \/ ~PassesChecks(op, a)
  THEN {"proceed"} ELSE {"proceed", "noop", "reject"}

PlansFor(op, a, d) ==
  IF ~SubmitsTask(op, a) \/ d # "proceed" THEN {NoPlan}
  ELSE { p \in Plans :
           /\ p.faultCount = 0 => p.firstFault = 1 /\ p.fate = "error"
           /\ (p.faultCount > 0 /\ p.fate = "stuck") => p.delay = 0
           /\ p.laterStuck =>
                /\ p.faultCount > 1 /\ p.fate = "error" /\ p.delay = 0
                /\ op = "restart_vm" /\ p.guest = "ignores"
           /\ op \notin {"delete_snapshot", "revert_snapshot", "create_snapshot"}
                => p.tree = <<>>
           /\ (op = "create_snapshot"
                 /\ \E i \in DOMAIN get_all_snapshot_names(p.tree) :
                      get_all_snapshot_names(p.tree)[i] = a.name2) =>
                [p EXCEPT !.tree = <<>>] = NoPlan
           /\ (op \in {"delete_snapshot", "revert_snapshot"}
                 /\ find_snapshot_by_name(p.tree, a.name2).snapshot = <<>>) =>
                [p EXCEPT !.tree = <<>>] = NoPlan
           /\ (op \notin {"stop_vm", "restart_vm"} \/ a.force) => p.guest = "shuts" }

(***************************************************************************)
(* Initial state: the server is up, no invocation is in flight.            *)
(***************************************************************************)
InitServing ==
  /\ enable_rbac \in BOOLEAN
  /\ remoteSnapshots = [tree |-> <<>>, pending |-> <<>>]
  /\ now = 0
  /\ args = NoArgs
  /\ stack = <<>>
  /\ tasks = <<>>
  /\ vm \in [ exists : {TRUE}, power : {"poweredOn", "poweredOff"},
              shutdownRequested : {FALSE} ]
  /\ audit = <<>>
  /\ events = <<>>
  /\ origin = None
  /\ wrapped = None
  /\ outcome = None
  /\ nextId = 1
  /\ plan = NoPlan
  /\ reply = <<>>

\* The state of app where the process lifecycle is not followed.
NoApplication ==
  [ pc |-> "off", running |-> FALSE, server |-> FALSE, session |-> FALSE,
    vsphere_client |-> FALSE, connected |-> "", raised |-> FALSE,
    signum |-> "", signals |-> 0 ]

InitCommon == InitServing /\ si \in BOOLEAN /\ app = NoApplication

\* The state of concurrent where one invocation is run at a time.
NoContext ==
  [ live |-> FALSE, id |-> "", args |-> NoArgs, stack |-> <<>>, tasks |-> <<>>,
    audit |-> <<>>, events |-> <<>>, origin |-> None, wrapped |-> None,
    outcome |-> None, nextId |-> 1, plan |-> NoPlan, reply |-> <<>> ]

NoReference ==
  [ done |-> FALSE, op |-> "", args |-> NoArgs, plan |-> NoPlan, outcome |-> None,
    audit |-> <<>> ]

OneAtATime ==
  [ phase |-> "off", running |-> "", first |-> "", parked |-> NoContext,
    alone |-> [vm |-> NoReference, host |-> NoReference],
    vm0 |-> [exists |-> TRUE, power |-> "poweredOff", shutdownRequested |-> FALSE] ]

Init == InitCommon /\ table = ROLES /\ sinkFaulty = FALSE /\ concurrent = OneAtATime

\* The same server with an audit logger that may be one that raises.
InitSinkFault ==
  InitCommon /\ table = ROLES /\ sinkFaulty \in BOOLEAN /\ concurrent = OneAtATime

\* The same server with a permission table that may hold one more role, one
\* that may start virtual machines and nothing else.
Tables ==
  { ROLES,
    [r \in DOMAIN ROLES \cup {"guest"} |->
       IF r = "guest" THEN {"vm:start"} ELSE ROLES[r]] }

InitTables ==
  InitCommon /\ table \in Tables /\ sinkFaulty = FALSE /\ concurrent = OneAtATime

(***************************************************************************)
(* Actions of the server.                                                  *)
(***************************************************************************)
Idle == stack = <<>>

\* The frames whose wait_for timer is due.
DueFrames == {i \in 1..Len(stack) : stack[i].armed /\ stack[i].deadline <= now}

\* The body is suspended in the sleep that stop_vm's bare except clause encloses.
Swallows(f) == f.op = "stop_vm" /\ f.pc = "sleep" /\ f.resume = "afterGrace"

\* The task the innermost frame is about to read.
Awaited(i) ==
  /\ ~Idle
  /\ Top(Cur).task = i
  /\ IF Top(Cur).pc = "poll" THEN TRUE
     ELSE /\ Top(Cur).pc = "sleep"
          /\ Top(Cur).resume = "poll"
          /\ Top(Cur).wake <= now
          /\ DueFrames = {}

Faulty(i) == plan.firstFault <= i /\ i < plan.firstFault + plan.faultCount

\* Task i never leaves queued / running.
Stuck(i) ==
  /\ Faulty(i)
  /\ IF plan.fate = "stuck" THEN TRUE ELSE plan.laterStuck /\ i > plan.firstFault

\* The state the plan gives task i at its k-th read, counted from 0.
Planned(i, k) ==
  IF k = 0 /\ (plan.delay > 0 \/ Stuck(i)) THEN "queued"
  ELSE IF k < plan.delay \/ Stuck(i) THEN "running"
  ELSE IF Faulty(i) THEN plan.fate
  ELSE "success"

PlannedNow(i) == Planned(i, now - Top(Cur).pollStart)

\* The remote plane has yet to bring the awaited task to the state the
\* coming read is to see.
MoveDue ==
  IF Idle THEN FALSE
  ELSE IF ~Awaited(Top(Cur).task) THEN FALSE
  ELSE LET i == Top(Cur).task IN
       /\ tasks[i].state \in {"queued", "running"}
       /\ tasks[i].state # PlannedNow(i)

\* The guest has yet to answer ShutdownGuest, and the invocation that runs is
\* the one that asked.
GuestDue == vm.shutdownRequested /\ concurrent.running # "host"

PlanOracle ==
  [guestRaises |-> plan.guest = "raises", domain |-> "proceed", tree |-> plan.tree]

\* call_tool -> _execute_tool -> the decorated operation, up to its first
\* suspension.  The clock, the task list and the logs start afresh.
Started(op, a, d, p, t) ==
  LET st0 == [ now |-> t, args |-> a,
               stack |-> <<CalledWith(NewFrame(op, 1, t), a.role, a.force)>>,
               tasks |-> <<>>, vm |-> vm, audit |-> <<>>, events |-> <<>>,
               origin |-> None, wrapped |-> None, outcome |-> None,
               nextId |-> 2 ]
      env == [guestRaises |-> p.guest = "raises", domain |-> d, tree |-> p.tree]
  IN Exec(Log(st0, "enter", ""), env)

Begin(op, a, d, p, t) ==
  /\ plan' = p
  /\ \E st \in {Started(op, a, d, p, t)} : Install(st)

Invoke(op, a, d, p) ==
  /\ Idle
  /\ events = <<>>
  /\ Begin(op, a, d, p, 0)
  /\ UNCHANGED <<enable_rbac, table, si, app, sinkFaulty, remoteSnapshots, concurrent>>

\* call_tool hands the text of the outcome to the client; the server is ready
\* for the next request.  What was observed of the finished invocation is
\* dropped, the state of the virtual machine stays.
call_tool_returns ==
  /\ Idle
  /\ reply # <<>>
  /\ reply' = <<>>
  /\ now' = 0
  /\ args' = NoArgs
  /\ tasks' = <<>>
  /\ audit' = <<>>
  /\ events' = <<>>
  /\ origin' = None
  /\ wrapped' = None
  /\ outcome' = None
  /\ nextId' = 1
  /\ plan' = NoPlan
  /\ UNCHANGED <<enable_rbac, table, si, app, sinkFaulty, remoteSnapshots, concurrent, stack, vm>>

\* The read of task.info.state that follows a submission.
PollTaskReady ==
  /\ ~Idle
  /\ Top(Cur).pc = "poll"
  /\ ~MoveDue

PollTask ==
  /\ PollTaskReady
  /\ \E st \in {Exec(Cur, PlanOracle)} : Install(st)
  /\ UNCHANGED <<enable_rbac, table, si, app, sinkFaulty, remoteSnapshots, concurrent, plan>>

\* The end of an asyncio.sleep.
WakeReady ==
  /\ ~Idle
  /\ Top(Cur).pc = "sleep"
  /\ Top(Cur).wake <= now
  /\ DueFrames = {}
  /\ ~MoveDue
  /\ ~GuestDue

Wake ==
  /\ WakeReady
  /\ \E st \in {Exec(SetTop(Cur, [Top(Cur) EXCEPT !.pc = Top(Cur).resume]),
                     PlanOracle)} : Install(st)
  /\ UNCHANGED <<enable_rbac, table, si, app, sinkFaulty, remoteSnapshots, concurrent, plan>>

\* The timer of a wait_for fires while the body is suspended: the body is
\* cancelled at its suspension point.  impl: how wait_for treats a body that
\* catches the cancellation ("task": Python up to 3.11, the body is a task of
\* its own; "scope": Python 3.12 on, asyncio.timeout in the caller's task).
DeadlineReady ==
  /\ ~Idle
  /\ Top(Cur).pc = "sleep"
  /\ DueFrames # {}
  /\ ~GuestDue

DeadlineFires(impl) ==
  /\ DeadlineReady
  /\ LET i == CHOOSE j \in DueFrames : \A k \in DueFrames : j <= k
         depth == Len(stack)
         e == TimeoutError(TimeoutText(stack[i].op))
     IN IF Swallows(Top(Cur))
        THEN LET s1 == [Cur EXCEPT !.stack[i].armed = FALSE]
                 s2 == IF i < depth /\ impl = "task"
                       THEN [s1 EXCEPT !.stack[depth].zombie = TRUE,
                                       !.stack[depth].armed = FALSE]
                       ELSE s1
             IN \E st \in {stop_vm_cancelled_in_grace(Log(s2, "cancelled", ""))} :
                  Install(st)
        ELSE \E st \in {Complete([Cur EXCEPT !.stack = SubSeq(@, 1, i),
                                             !.origin = e], e)} : Install(st)
  /\ UNCHANGED <<enable_rbac, table, si, app, sinkFaulty, remoteSnapshots, concurrent, plan>>

\* One second passes; no timer is due.
TickReady ==
  /\ ~Idle
  /\ Top(Cur).pc = "sleep"
  /\ now < Top(Cur).wake
  /\ DueFrames = {}

Tick ==
  /\ TickReady
  /\ now' = now + 1
  /\ UNCHANGED << enable_rbac, table, si, app, sinkFaulty, remoteSnapshots, concurrent, args, stack, tasks, vm, audit,
                  events, origin, wrapped, outcome, nextId, plan, reply >>

(***************************************************************************)
(* The remote management plane.  It is observed through the reads the      *)
(* server makes: a task moves right before the read that sees the move,    *)
(* and a task nobody waits for any more stays as it is.                    *)
(***************************************************************************)
TaskRunsReady(i) ==
  /\ Awaited(i)
  /\ tasks[i].state = "queued"
  /\ PlannedNow(i) # "queued"

TaskRuns(i) ==
  /\ TaskRunsReady(i)
  /\ tasks' = [tasks EXCEPT ![i].state = "running"]
  /\ UNCHANGED << enable_rbac, table, si, app, sinkFaulty, remoteSnapshots, concurrent, now, args, stack, vm, audit,
                  events, origin, wrapped, outcome, nextId, plan, reply >>

\* The effect of a task that succeeds.
Effect(kind, v) ==
  CASE kind = "PowerOnVM_Task" -> [v EXCEPT !.power = "poweredOn"]
    [] kind = "PowerOffVM_Task" -> [v EXCEPT !.power = "poweredOff"]
    [] kind = "Destroy_Task" -> [v EXCEPT !.exists = FALSE]
    [] OTHER -> v

TaskEndsReady(i, end) ==
  /\ Awaited(i)
  /\ tasks[i].state = "running"
  /\ PlannedNow(i) = end

TaskEnds(i, end) ==
  /\ TaskEndsReady(i, end)
  /\ tasks' = [tasks EXCEPT ![i].state = end,
                            ![i].result = IF end = "success"
                                          THEN "result of task-" \o ToString(i) ELSE "",
                            ![i].error = IF end = "error"
                                         THEN "fault in task-" \o ToString(i) ELSE ""]
  /\ vm' = IF end = "success" THEN Effect(tasks[i].kind, vm) ELSE vm
  /\ UNCHANGED << enable_rbac, table, si, app, sinkFaulty, remoteSnapshots, concurrent, now, args, stack, audit,
                  events, origin, wrapped, outcome, nextId, plan, reply >>

\* The guest's answer to ShutdownGuest is placed right before the server
\* looks again: the grace sleep is over, or its cancellation is due.
GuestAnswers ==
  /\ GuestDue
  /\ ~Idle
  /\ Top(Cur).pc = "sleep"
  /\ IF Top(Cur).wake <= now THEN TRUE ELSE DueFrames # {}

GuestShutsDown ==
  /\ GuestAnswers
  /\ plan.guest = "shuts"
  /\ vm' = [vm EXCEPT !.power = "poweredOff", !.shutdownRequested = FALSE]
  /\ UNCHANGED << enable_rbac, table, si, app, sinkFaulty, remoteSnapshots, concurrent, now, args, stack, tasks, audit,
                  events, origin, wrapped, outcome, nextId, plan, reply >>

GuestIgnores ==
  /\ GuestAnswers
  /\ plan.guest = "ignores"
  /\ vm' = [vm EXCEPT !.shutdownRequested = FALSE]
  /\ UNCHANGED << enable_rbac, table, si, app, sinkFaulty, remoteSnapshots, concurrent, now, args, stack, tasks, audit,
                  events, origin, wrapped, outcome, nextId, plan, reply >>

(***************************************************************************)
(* The Dispatch Front (mcp_server.py): call_tool and _execute_tool.        *)
(***************************************************************************)
\* The names _execute_tool has a branch for (the AI tools, which call no
\* operation of the catalog but get_vm_details, are left out).
Dispatched == Catalog \ {"consolidate_snapshots", "add_host_to_cluster",
                         "create_resource_pool"}

\* The names a client may send: those of the catalog and one that is none.
ToolNames == Catalog \cup {"frobnicate"}

\* arguments.get("user_role", ...): the default of the branch.
DefaultRole(name) ==
  CASE name \in {"start_vm", "stop_vm", "restart_vm", "clone_vm", "create_snapshot",
                 "revert_snapshot", "delete_snapshot", "delete_all_snapshots"}
         -> "operator"
    [] name \in {"delete_vm", "migrate_vm", "enter_maintenance_mode",
                 "exit_maintenance_mode", "reboot_host", "modify_vm_resources"}
         -> "admin"
    [] OTHER -> "viewer"

\* The keys the branch reads with arguments[...], in the order it reads them.
FirstKey(name) ==
  CASE name = "clone_vm" -> "source_vm_name"
    [] name \in NamesHost -> "host_name"
    [] name \in VmOps \cup NamesVm /\ name # "list_vms" -> "vm_name"
    [] OTHER -> ""

SecondKey(name) ==
  CASE name = "clone_vm" -> "clone_name"
    [] name \in {"create_snapshot", "revert_snapshot", "delete_snapshot"}
         -> "snapshot_name"
    [] OTHER -> ""

\* str(KeyError(key)) is the repr of the key.
KeyError(key) == Exc("KeyError", "'" \o key \o "'")

\* The argument bag of a request: a key is <<>> when the bag does not hold it,
\* <<v>> when it holds the value v.
Bag(a, role, first, second) ==
  [ user_role |-> IF role THEN <<a.role>> ELSE <<>>,
    first |-> IF first THEN <<a.name>> ELSE <<>>,
    second |-> IF second THEN <<a.name2>> ELSE <<>>,
    force |-> a.force, cpu_count |-> a.cpu_count, memory_mb |-> a.memory_mb,
    datastore_name |-> a.datastore_name ]

Bags(name) ==
  { Bag(a, role, first, second) :
      a \in ArgSpace(name), role \in BOOLEAN, first \in BOOLEAN, second \in BOOLEAN }

\* _execute_tool, up to the call of the operation: the call it makes, or the
\* exception it raises itself.
execute_tool(name, arguments) ==
  IF name \notin Dispatched
  THEN [raises |-> TRUE, exc |-> VMwareMCPException("Unknown tool: " \o name)]
  ELSE IF FirstKey(name) # "" /\ arguments.first = <<>>
  THEN [raises |-> TRUE, exc |-> KeyError(FirstKey(name))]
  ELSE IF SecondKey(name) # "" /\ arguments.second = <<>>
  THEN [raises |-> TRUE, exc |-> KeyError(SecondKey(name))]
  ELSE [ raises |-> FALSE,
         args |-> [ role |-> IF arguments.user_role = <<>> THEN DefaultRole(name)
                             ELSE arguments.user_role[1],
                    name |-> IF FirstKey(name) = "" THEN <<>> ELSE arguments.first[1],
                    name2 |-> IF SecondKey(name) = "" THEN <<>>
                              ELSE arguments.second[1],
                    force |-> arguments.force,
                    cpu_count |-> arguments.cpu_count,
                    memory_mb |-> arguments.memory_mb,
                    datastore_name |-> arguments.datastore_name ] ]

\* A request of a client.
call_tool ==
  /\ Idle
  /\ events = <<>>
  /\ reply = <<>>
  /\ \E name \in ToolNames : \E arguments \in Bags(name) :
       LET call == execute_tool(name, arguments) IN
       IF call.raises
       THEN /\ reply' = call_tool_result(call.exc)
            /\ UNCHANGED << enable_rbac, table, si, app, sinkFaulty, remoteSnapshots, concurrent, now, args, stack,
                            tasks, vm, audit, events, origin, wrapped, outcome,
                            nextId, plan >>
       ELSE \E d \in DomainsFor(name, call.args) :
              \E p \in PlansFor(name, call.args, d) : Invoke(name, call.args, d, p)

Next ==
  \/ call_tool
  \/ call_tool_returns
  \/ PollTask
  \/ Wake
  \/ \E impl \in {"task", "scope"} : DeadlineFires(impl)
  \/ Tick
  \/ \E i \in 1..Len(tasks) : TaskRuns(i)
  \/ \E i \in 1..Len(tasks) : \E end \in {"success", "error", "unknown"} :
       TaskEnds(i, end)
  \/ GuestShutsDown
  \/ GuestIgnores

Spec == Init /\ [][Next]_vars

\* The server asked only to modify resources, with arguments on both sides of
\* every limit of the input checks, by a remote plane that does as it is told.
LimitName == [i \in 1..MaxNameLen |-> "a"]

ModifyArgSpace ==
  [ role : {"admin", "viewer"},
    name : {EntityName, <<>>, LimitName, LongName}
             \cup {<<"a", c>> : c \in invalid_chars},
    name2 : {<<>>},
    force : {FALSE},
    cpu_count : {<<>>, <<0>>, <<1>>, <<128>>, <<129>>},
    memory_mb : {<<>>, <<3>>, <<4>>, <<1048576>>, <<1048577>>},
    datastore_name : {<<>>} ]

modify_vm_resources_called ==
  \E a \in ModifyArgSpace : Invoke("modify_vm_resources", a, "proceed", NoPlan)

NextModify ==
  \/ modify_vm_resources_called
  \/ call_tool_returns
  \/ PollTask
  \/ \E i \in 1..Len(tasks) : TaskRuns(i)
  \/ \E i \in 1..Len(tasks) : TaskEnds(i, "success")

SpecModify == Init /\ [][NextModify]_vars

(***************************************************************************)
(* create_snapshot, request after request, on the one virtual machine.     *)
(* remoteSnapshots.tree is vm.snapshot.rootSnapshotList as the remote      *)
(* plane holds it; remoteSnapshots.pending are the names of the            *)
(* CreateSnapshot_Task the server stopped waiting for before they ended.   *)
(***************************************************************************)
\* CreateSnapshot_Task succeeds: the new snapshot is a child of the current
\* one, which is the one taken last.
RECURSIVE SnapshotAdded(_, _, _)
SnapshotAdded(tree, id, name) ==
  IF tree = <<>> THEN << SnapshotTree(id, name, <<>>) >>
  ELSE [tree EXCEPT ![Len(tree)].childSnapshotList = SnapshotAdded(@, id, name)]

SnapshotTaken(name) ==
  [remoteSnapshots EXCEPT
     !.tree = SnapshotAdded(@, Cardinality(AllSnapshots(@)) + 1, name)]

SnapshotNames == {<<"s">>, <<"t">>}

\* The remote plane ends the task at once, after MaxTaskDelay reads, or not
\* while the server waits.
SnapshotPlans(a) ==
  LET found == [NoPlan EXCEPT !.tree = remoteSnapshots.tree] IN
  IF ~PassesChecks("create_snapshot", a) THEN {found}
  ELSE IF \E i \in DOMAIN get_all_snapshot_names(found.tree) :
            get_all_snapshot_names(found.tree)[i] = a.name2
  THEN {found}
  ELSE { [found EXCEPT !.delay = d] : d \in 0..MaxTaskDelay }
       \cup { [found EXCEPT !.faultCount = 1, !.fate = "stuck"] }

create_snapshot_called ==
  /\ Cardinality(AllSnapshots(remoteSnapshots.tree)) + Len(remoteSnapshots.pending)
       < MaxSnapshots
  /\ \E role \in {"operator", "viewer"} : \E n \in SnapshotNames :
       LET a == [NoArgs EXCEPT !.role = role, !.name = EntityName, !.name2 = n]
       IN \E p \in SnapshotPlans(a) : Invoke("create_snapshot", a, "proceed", p)

\* The task the invocation in flight waits for succeeds.
CreateSnapshotTaskEnds(i) ==
  /\ TaskEndsReady(i, "success")
  /\ tasks[i].kind = "CreateSnapshot_Task"
  /\ tasks' = [tasks EXCEPT ![i].state = "success",
                            ![i].result = "result of task-" \o ToString(i)]
  /\ remoteSnapshots' = SnapshotTaken(args.name2)
  /\ UNCHANGED << enable_rbac, table, si, app, sinkFaulty, concurrent, now, args, stack, vm, audit,
                  events, origin, wrapped, outcome, nextId, plan, reply >>

\* call_tool_returns; a CreateSnapshot_Task that has not ended goes on in the
\* remote plane.
create_snapshot_returns ==
  /\ Idle
  /\ reply # <<>>
  /\ reply' = <<>>
  /\ now' = 0
  /\ args' = NoArgs
  /\ tasks' = <<>>
  /\ audit' = <<>>
  /\ events' = <<>>
  /\ origin' = None
  /\ wrapped' = None
  /\ outcome' = None
  /\ nextId' = 1
  /\ plan' = NoPlan
  /\ remoteSnapshots' =
       IF \E i \in 1..Len(tasks) : /\ tasks[i].kind = "CreateSnapshot_Task"
                                   /\ tasks[i].state \in {"queued", "running"}
       THEN [remoteSnapshots EXCEPT !.pending = Append(@, args.name2)]
       ELSE remoteSnapshots
  /\ UNCHANGED <<enable_rbac, table, si, app, sinkFaulty, concurrent, stack, vm>>

\* A CreateSnapshot_Task nobody waits for any more succeeds.
AbandonedTaskEnds ==
  /\ remoteSnapshots.pending # <<>>
  /\ remoteSnapshots' =
       [SnapshotTaken(Head(remoteSnapshots.pending)) EXCEPT !.pending = Tail(@)]
  /\ UNCHANGED << enable_rbac, table, si, app, sinkFaulty, concurrent, now, args, stack, tasks, vm,
                  audit, events, origin, wrapped, outcome, nextId, plan, reply >>

NextSnapshots ==
  \/ create_snapshot_called
  \/ create_snapshot_returns
  \/ PollTask
  \/ Wake
  \/ \E impl \in {"task", "scope"} : DeadlineFires(impl)
  \/ Tick
  \/ \E i \in 1..Len(tasks) : TaskRuns(i)
  \/ \E i \in 1..Len(tasks) : CreateSnapshotTaskEnds(i)
  \/ AbandonedTaskEnds

SpecSnapshots == Init /\ [][NextSnapshots]_vars

(***************************************************************************)
(* Two invocations at a time, one on the virtual machine and one on the    *)
(* host.  Both are coroutines of the one event loop: one runs until it is  *)
(* suspended in an asyncio.sleep or has ended, then the loop resumes a     *)
(* coroutine whose sleep is over or whose wait_for timer is due.  The      *)
(* variables hold the coroutine that ran last, concurrent.parked the other *)
(* one.  Each invocation is first run alone, for reference.                *)
(***************************************************************************)
InitTwo ==
  /\ InitCommon /\ table = ROLES /\ sinkFaulty = FALSE
  /\ concurrent = [OneAtATime EXCEPT !.phase = "alone", !.vm0 = vm]

\* What the two invocations are called with, and what the remote plane does
\* with their tasks.
TwoOps(id) ==
  IF id = "vm" THEN {"start_vm", "stop_vm"}
  ELSE {"enter_maintenance_mode", "reboot_host"}

TwoPlans(op, a) ==
  { p \in PlansFor(op, a, "proceed") :
      /\ p.delay = 0 /\ p.faultCount <= 1 /\ p.fate # "unknown"
      /\ ~p.laterStuck /\ p.guest # "raises" }

called(id, op, force, p, t) ==
  Begin(op, [NoArgs EXCEPT !.role = "admin", !.name = EntityName, !.force = force],
        "proceed", p, t)

\* The invocation the variables hold, as the event loop keeps it while the
\* other one runs.
Context ==
  [ live |-> TRUE, id |-> concurrent.running, args |-> args, stack |-> stack,
    tasks |-> tasks, audit |-> audit, events |-> events, origin |-> origin,
    wrapped |-> wrapped, outcome |-> outcome, nextId |-> nextId, plan |-> plan,
    reply |-> reply ]

\* One invocation, with no other in flight.
run_alone ==
  /\ concurrent.phase = "alone"
  /\ concurrent.running = ""
  /\ Idle /\ events = <<>> /\ reply = <<>>
  /\ \E id \in {"vm", "host"} :
       /\ ~concurrent.alone[id].done
       /\ IF id = "host" THEN concurrent.alone["vm"].done ELSE TRUE
       /\ \E op \in TwoOps(id) :
            \E force \in (IF op = "stop_vm" THEN BOOLEAN ELSE {FALSE}) :
              \E p \in TwoPlans(op, [NoArgs EXCEPT !.role = "admin",
                                                   !.name = EntityName,
                                                   !.force = force]) :
                called(id, op, force, p, 0)
       /\ concurrent' = [concurrent EXCEPT !.running = id]
  /\ UNCHANGED <<enable_rbac, table, si, app, sinkFaulty, remoteSnapshots>>

\* It has ended: what it was called with, what it returned and its audit
\* records are kept, and the virtual machine is put back as it was.
alone_returns ==
  /\ concurrent.phase = "alone"
  /\ concurrent.running # ""
  /\ Idle
  /\ reply # <<>>
  /\ concurrent' =
       [concurrent EXCEPT !.alone[concurrent.running] =
                            [ done |-> TRUE, op |-> events[1].op, args |-> args,
                              plan |-> plan, outcome |-> outcome, audit |-> audit ],
                          !.running = ""]
  /\ reply' = <<>>
  /\ now' = 0
  /\ args' = NoArgs
  /\ tasks' = <<>>
  /\ audit' = <<>>
  /\ events' = <<>>
  /\ origin' = None
  /\ wrapped' = None
  /\ outcome' = None
  /\ nextId' = 1
  /\ plan' = NoPlan
  /\ vm' = concurrent.vm0
  /\ UNCHANGED <<enable_rbac, table, si, app, sinkFaulty, remoteSnapshots, stack>>

\* The first of the two requests arrives.
first_called ==
  /\ concurrent.phase = "alone"
  /\ concurrent.alone["vm"].done
  /\ concurrent.alone["host"].done
  /\ Idle /\ events = <<>>
  /\ \E id \in {"vm", "host"} :
       LET ref == concurrent.alone[id] IN
       /\ called(id, ref.op, ref.args.force, ref.plan, 0)
       /\ concurrent' = [concurrent EXCEPT !.phase = "together", !.running = id,
                                           !.first = id]
  /\ UNCHANGED <<enable_rbac, table, si, app, sinkFaulty, remoteSnapshots>>

\* The second request arrives while the first invocation is suspended.
second_called ==
  /\ concurrent.phase = "together"
  /\ ~concurrent.parked.live
  /\ ~Idle
  /\ Top(Cur).pc = "sleep"
  /\ now <= MaxStartGap
  /\ LET id == IF concurrent.running = "vm" THEN "host" ELSE "vm"
         ref == concurrent.alone[id]
     IN /\ called(id, ref.op, ref.args.force, ref.plan, now)
        /\ concurrent' = [concurrent EXCEPT !.parked = Context, !.running = id]
  /\ UNCHANGED <<enable_rbac, table, si, app, sinkFaulty, remoteSnapshots>>

\* The sleep of the parked coroutine is over, or one of its wait_for timers is
\* due.
ParkedDue ==
  LET stk == concurrent.parked.stack IN
  IF stk = <<>> THEN FALSE
  ELSE IF stk[Len(stk)].wake <= now THEN TRUE
  ELSE \E i \in 1..Len(stk) : stk[i].armed /\ stk[i].deadline <= now

ParkedWaits ==
  IF concurrent.parked.live THEN ~ParkedDue ELSE TRUE

\* asyncio.sleep blocks the event loop, as time.sleep would.
SwitchReady_sleep_blocks ==
  /\ concurrent.phase = "together"
  /\ concurrent.parked.live
  /\ concurrent.parked.stack # <<>>
  /\ Idle

\* await asyncio.sleep(...) gives the event loop the control; so does the end
\* of the coroutine.
SwitchReady ==
  /\ concurrent.phase = "together"
  /\ concurrent.parked.live
  /\ concurrent.parked.stack # <<>>
  /\ IF Idle THEN TRUE ELSE Top(Cur).pc = "sleep" /\ ParkedDue

\* The event loop resumes the other coroutine.
Switch ==
  /\ SwitchReady
  /\ args' = concurrent.parked.args
  /\ stack' = concurrent.parked.stack
  /\ tasks' = concurrent.parked.tasks
  /\ audit' = concurrent.parked.audit
  /\ events' = concurrent.parked.events
  /\ origin' = concurrent.parked.origin
  /\ wrapped' = concurrent.parked.wrapped
  /\ outcome' = concurrent.parked.outcome
  /\ nextId' = concurrent.parked.nextId
  /\ plan' = concurrent.parked.plan
  /\ reply' = concurrent.parked.reply
  /\ concurrent' = [concurrent EXCEPT !.parked = Context,
                                      !.running = concurrent.parked.id]
  /\ UNCHANGED <<enable_rbac, table, si, app, sinkFaulty, remoteSnapshots, now, vm>>

\* One second passes; no coroutine is ready.
LoopTick == ParkedWaits /\ Tick

NextTwo ==
  \/ run_alone
  \/ alone_returns
  \/ first_called
  \/ second_called
  \/ Switch
  \/ PollTask
  \/ Wake
  \/ \E impl \in {"task", "scope"} : DeadlineFires(impl)
  \/ LoopTick
  \/ \E i \in 1..Len(tasks) : TaskRuns(i)
  \/ \E i \in 1..Len(tasks) : \E end \in {"success", "error"} : TaskEnds(i, end)
  \/ GuestShutsDown
  \/ GuestIgnores

SpecTwo == InitTwo /\ [][NextTwo]_vars

(***************************************************************************)
(* The inference tools of the Dispatch Front (mcp_server.py, the branches  *)
(* of _execute_tool under "AI Integration Tools"; ollama_integration.py).  *)
(***************************************************************************)
InferenceTools == {"analyze_vm_performance", "suggest_vm_sizing", "troubleshoot_issue"}

\* The argument bags of a request to an inference tool.  first, second: the
\* keys the branch reads with arguments[...] are there.
InferenceBags ==
  [ user_role : {<<>>} \cup {<<r>> : r \in Roles},
    vm_name : {<<>>, <<EntityName>>, <<AbsentName>>},
    first : BOOLEAN, second : BOOLEAN ]

\* OllamaIntegration.generate_response: it posts the prompt to the Ollama
\* service and returns a dictionary, whatever the service does.
generate_response(answers) ==
  IF answers THEN [success |-> TRUE, response |-> "response"]
  ELSE [success |-> FALSE, error |-> "error"]

\* The tool hands its prompt to generate_response and returns what it gets.
Prompted(st, name, answers) ==
  [st EXCEPT !.events = Append(@, [ev |-> "generate_response", arg |-> "",
                                   inv |-> 0, op |-> name]),
             !.outcome = Ret(generate_response(answers))]

\* _execute_tool for an inference tool: the exception it raises before any
\* call, or the state its calls leave.  enabled: settings.enable_ollama.
execute_inference_tool(name, arguments, enabled, answers) ==
  LET role == IF arguments.user_role = <<>> THEN "viewer" ELSE arguments.user_role[1]
      a == [NoArgs EXCEPT !.role = role,
                          !.name = IF arguments.vm_name = <<>> THEN <<>>
                                   ELSE arguments.vm_name[1]]
      none == [ now |-> 0, args |-> a, stack |-> <<>>, tasks |-> <<>>, vm |-> vm,
                audit |-> <<>>, events |-> <<>>, origin |-> None, wrapped |-> None,
                outcome |-> None, nextId |-> 1 ]
      vm_data == Started("get_vm_details", a, "proceed", NoPlan, 0)
  IN IF ~enabled
     THEN [raises |-> TRUE, exc |-> VMwareMCPException("Unknown tool: " \o name)]
     ELSE IF name = "analyze_vm_performance"
     THEN IF arguments.vm_name = <<>>
          THEN [raises |-> TRUE, exc |-> KeyError("vm_name")]
          ELSE IF vm_data.outcome.kind = "exc"
          THEN [raises |-> FALSE, st |-> vm_data]
          ELSE [raises |-> FALSE, st |-> Prompted(vm_data, name, answers)]
     ELSE IF name = "suggest_vm_sizing"
     THEN IF ~arguments.first
          THEN [raises |-> TRUE, exc |-> KeyError("workload_description")]
          ELSE IF ~arguments.second
          THEN [raises |-> TRUE, exc |-> KeyError("requirements")]
          ELSE [raises |-> FALSE, st |-> Prompted(none, name, answers)]
     ELSE IF arguments.vm_name = <<>>
     THEN IF ~arguments.first
          THEN [raises |-> TRUE, exc |-> KeyError("issue_description")]
          ELSE [raises |-> FALSE, st |-> Prompted(none, name, answers)]
     ELSE IF vm_data.outcome.kind = "exc"
     THEN [raises |-> FALSE, st |-> vm_data]
     ELSE IF ~arguments.first
     THEN [raises |-> FALSE,
           st |-> [vm_data EXCEPT !.outcome = KeyError("issue_description")]]
     ELSE [raises |-> FALSE, st |-> Prompted(vm_data, name, answers)]

\* A request of a client for an inference tool.
inference_tool_called ==
  /\ Idle
  /\ events = <<>>
  /\ reply = <<>>
  /\ \E name \in InferenceTools : \E arguments \in InferenceBags :
       \E enabled \in BOOLEAN : \E answers \in BOOLEAN :
         \E call \in {execute_inference_tool(name, arguments, enabled, answers)} :
           IF call.raises
           THEN /\ reply' = call_tool_result(call.exc)
                /\ UNCHANGED << now, args, stack, tasks, vm, audit, events, origin,
                                wrapped, outcome, nextId, plan >>
           ELSE /\ plan' = NoPlan
                /\ \E st \in {call.st} : Install(st)
  /\ UNCHANGED <<enable_rbac, table, si, app, sinkFaulty, remoteSnapshots, concurrent>>

NextInference ==
  \/ inference_tool_called
  \/ Next

SpecInference == Init /\ [][NextInference]_vars

(***************************************************************************)
(* Two create_snapshot invocations at a time on the one virtual machine.   *)
(* The second request arrives while the first invocation is suspended in   *)
(* the sleep of wait_for_task_async; both read and change the one snapshot *)
(* tree the remote plane holds.                                            *)
(***************************************************************************)
InitOverlap ==
  /\ InitCommon /\ table = ROLES /\ sinkFaulty = FALSE
  /\ concurrent = [OneAtATime EXCEPT !.phase = "together"]

\* The remote plane ends the task at once or after MaxTaskDelay reads.
OverlapPlans(a) == {p \in SnapshotPlans(a) : p.faultCount = 0}

create_snapshot_first ==
  /\ concurrent.phase = "together"
  /\ concurrent.running = ""
  /\ Idle /\ events = <<>>
  /\ \E role \in {"operator", "viewer"} : \E n \in SnapshotNames :
       LET a == [NoArgs EXCEPT !.role = role, !.name = EntityName, !.name2 = n]
       IN \E p \in OverlapPlans(a) : Begin("create_snapshot", a, "proceed", p, 0)
  /\ concurrent' = [concurrent EXCEPT !.running = "first", !.first = "first"]
  /\ UNCHANGED <<enable_rbac, table, si, app, sinkFaulty, remoteSnapshots>>

create_snapshot_second ==
  /\ concurrent.phase = "together"
  /\ concurrent.running = "first"
  /\ ~concurrent.parked.live
  /\ ~Idle
  /\ Top(Cur).pc = "sleep"
  /\ now <= MaxStartGap
  /\ \E role \in {"operator", "viewer"} : \E n \in SnapshotNames :
       LET a == [NoArgs EXCEPT !.role = role, !.name = EntityName, !.name2 = n]
       IN \E p \in OverlapPlans(a) : Begin("create_snapshot", a, "proceed", p, now)
  /\ concurrent' = [concurrent EXCEPT !.parked = Context, !.running = "second"]
  /\ UNCHANGED <<enable_rbac, table, si, app, sinkFaulty, remoteSnapshots>>

NextOverlap ==
  \/ create_snapshot_first
  \/ create_snapshot_second
  \/ Switch
  \/ PollTask
  \/ Wake
  \/ LoopTick
  \/ \E i \in 1..Len(tasks) : TaskRuns(i)
  \/ \E i \in 1..Len(tasks) : CreateSnapshotTaskEnds(i)

SpecOverlap == InitOverlap /\ [][NextOverlap]_vars

(***************************************************************************)
(* wait_for_task_async on its own (utils.py): called with a task that has  *)
(* just been submitted and with a timeout of the caller's choice, from a   *)
(* coroutine no wait_for encloses, for a task that ends early, late or     *)
(* never.                                                                  *)
(***************************************************************************)
InitPoller ==
  /\ InitCommon /\ table = ROLES /\ sinkFaulty = FALSE /\ concurrent = OneAtATime
  /\ enable_rbac /\ si /\ vm.power = "poweredOn"

\* timeout = timeout or settings.operation_timeout: None and 0 give the
\* setting.
PollerTimeout(timeout) ==
  IF timeout = <<>> THEN OperationTimeout
  ELSE IF timeout[1] = 0 THEN OperationTimeout ELSE timeout[1]

PollerPlans ==
  { [NoPlan EXCEPT !.delay = d, !.faultCount = c, !.fate = e] :
      d \in 0..MaxLateDelay, c \in 0..1, e \in {"error", "unknown", "stuck"} }

wait_for_task_async_called ==
  /\ Idle /\ events = <<>> /\ reply = <<>>
  /\ \E timeout \in {<<>>} \cup {<<t>> : t \in 0..MaxPollerTimeout} :
     \E p \in PollerPlans :
       LET caller == "exit_maintenance_mode"
           st0 == [ now |-> 0, args |-> [NoArgs EXCEPT !.role = "admin"],
                    stack |-> <<CalledWith(NewFrame(caller, 1, 0), "admin", FALSE)>>,
                    tasks |-> <<>>, vm |-> vm, audit |-> <<>>, events |-> <<>>,
                    origin |-> None, wrapped |-> None, outcome |-> None,
                    nextId |-> 2 ]
           s1 == Submit(Log(st0, "enter", ""), TaskKind(caller), "task")
           s2 == SetTop(s1, [Top(s1) EXCEPT !.pollTimeout = PollerTimeout(timeout)])
       IN /\ plan' = p
          /\ \E st \in {[s2 EXCEPT !.tasks[1].waitTimeout = PollerTimeout(timeout)]} :
               Install(st)
  /\ UNCHANGED <<enable_rbac, table, si, app, sinkFaulty, remoteSnapshots, concurrent>>

NextPoller ==
  \/ wait_for_task_async_called
  \/ PollTask
  \/ Wake
  \/ Tick
  \/ \E i \in 1..Len(tasks) : TaskRuns(i)
  \/ \E i \in 1..Len(tasks) : \E end \in {"success", "error", "unknown"} :
       TaskEnds(i, end)

SpecPoller == InitPoller /\ [][NextPoller]_vars

(***************************************************************************)
(* The process lifecycle (main.py, mcp_server.py start and stop, auth.py    *)
(* connect and disconnect).  app.pc is the position of the one coroutine    *)
(* main() runs; each action is the code between two suspension points or    *)
(* calls into a library that can fail.  handle_signal is the handler        *)
(* main() installs for SIGINT and SIGTERM; it runs between any two steps.   *)
(***************************************************************************)
InitApp ==
  /\ InitServing
  /\ enable_rbac = TRUE
  /\ vm.power = "poweredOn"
  /\ table = ROLES
  /\ sinkFaulty = FALSE
  /\ concurrent = OneAtATime
  /\ si = FALSE
  /\ app = [NoApplication EXCEPT !.pc = "main"]

\* Everything the lifecycle leaves alone.
Requests ==
  << enable_rbac, table, sinkFaulty, remoteSnapshots, concurrent, args, stack, tasks,
     vm, audit, events, origin, wrapped, outcome, nextId, plan, reply >>

At(pc) == app.pc = pc

\* main(): app = VMwareMCPApplication(), the handlers, await app.start(),
\* which enters mcp_server.start() and auth_manager.connect().
app_start ==
  /\ At("main")
  /\ app' = [app EXCEPT !.pc = "SmartConnect"]
  /\ UNCHANGED <<si, now, Requests>>

\* connect(): self.si = SmartConnect(...).  The login returns a service
\* instance, returns none, or raises; the last two make connect return False.
SmartConnect ==
  /\ At("SmartConnect")
  /\ \E result \in {"instance", "none", "raises"} :
       /\ si' = CASE result = "instance" -> TRUE
                  [] result = "none" -> FALSE
                  [] OTHER -> si
       /\ app' = IF result = "instance"
                 THEN [app EXCEPT !.pc = "create_vsphere_client", !.session = TRUE]
                 ELSE [app EXCEPT !.pc = "connected", !.connected = "False"]
  /\ UNCHANGED <<now, Requests>>

\* connect(): self.vsphere_client = create_vsphere_client(...), after the
\* session of the REST API was opened; the except clause returns False.
create_vsphere_client ==
  /\ At("create_vsphere_client")
  /\ \E raises \in BOOLEAN :
       app' = IF raises
              THEN [app EXCEPT !.pc = "connected", !.connected = "False"]
              ELSE [app EXCEPT !.pc = "connected", !.connected = "True",
                               !.vsphere_client = TRUE]
  /\ UNCHANGED <<si, now, Requests>>

\* mcp_server.start(): if not await auth_manager.connect(): raise; the
\* exception leaves app.start() through its except clause to finally.
connect_returns ==
  /\ At("connected")
  /\ app' = IF app.connected = "False"
            THEN [app EXCEPT !.pc = "finally", !.raised = TRUE]
            ELSE [app EXCEPT !.pc = "health_check"]
  /\ UNCHANGED <<si, now, Requests>>

\* mcp_server.start(): the health checks of the enabled integrations (each
\* catches what it raises), return self.server; app.start() then sets
\* self.server and self.running = True.
health_checks ==
  /\ At("health_check")
  /\ app' = [app EXCEPT !.pc = "loop", !.server = TRUE, !.running = TRUE]
  /\ UNCHANGED <<si, now, Requests>>

\* app.start(): while self.running: await asyncio.sleep(1)
loop_test ==
  /\ At("loop")
  /\ app' = [app EXCEPT !.pc = IF app.running THEN "sleep" ELSE "finally"]
  /\ UNCHANGED <<si, now, Requests>>

loop_sleep ==
  /\ At("sleep")
  /\ now' = IF now < MaxUptime THEN now + 1 ELSE now
  /\ app' = [app EXCEPT !.pc = "loop"]
  /\ UNCHANGED <<si, Requests>>

\* handle_signal(signum, frame): self.running = False
handle_signal ==
  /\ ~At("exit")
  /\ app.signals < MaxSignals
  /\ \E signum \in {"SIGINT", "SIGTERM"} :
       app' = [app EXCEPT !.running = FALSE, !.signum = signum,
                          !.signals = app.signals + 1]
  /\ UNCHANGED <<si, now, Requests>>

\* mcp_server.stop(): auth_manager.disconnect() and the close of the enabled
\* integrations.
mcp_server_stop(a) ==
  [a EXCEPT !.session = FALSE, !.vsphere_client = FALSE]

\* app.start(): finally: await self.stop(), the whole of app.stop(), whose
\* body is under "if self.running:".
app_stop_if == app.running

app_stop ==
  /\ At("finally")
  /\ IF app_stop_if
     THEN IF app.server
          THEN /\ si' = FALSE
               /\ app' = [mcp_server_stop(app) EXCEPT !.pc = "exit", !.running = FALSE]
          ELSE /\ si' = si
               /\ app' = [app EXCEPT !.pc = "exit", !.running = FALSE]
     ELSE /\ si' = si
          /\ app' = [app EXCEPT !.pc = "exit"]
  /\ UNCHANGED <<now, Requests>>

AppStep ==
  \/ app_start
  \/ SmartConnect
  \/ create_vsphere_client
  \/ connect_returns
  \/ health_checks
  \/ loop_test
  \/ loop_sleep
  \/ app_stop

NextApp == AppStep \/ handle_signal

SpecApp == InitApp /\ [][NextApp]_vars

\* The event loop runs the coroutine of main() whenever it can run.
SpecAppFair == SpecApp /\ WF_vars(AppStep)

SpecSinkFault == InitSinkFault /\ [][Next]_vars

SpecTables == InitTables /\ [][Next]_vars

\* A step of the invocation in flight or of the remote plane it waits for.
Step ==
  \/ PollTask
  \/ Wake
  \/ \E impl \in {"task", "scope"} : DeadlineFires(impl)
  \/ Tick
  \/ \E i \in 1..Len(tasks) : TaskRuns(i)
  \/ \E i \in 1..Len(tasks) : \E end \in {"success", "error", "unknown"} :
       TaskEnds(i, end)
  \/ GuestShutsDown
  \/ GuestIgnores

\* ENABLED <<Step>>_vars, written out: the guards of the disjuncts of Step.
StepEnabled ==
  \/ PollTaskReady
  \/ WakeReady
  \/ DeadlineReady
  \/ TickReady
  \/ \E i \in 1..Len(tasks) : TaskRunsReady(i)
  \/ \E i \in 1..Len(tasks) : \E end \in {"success", "error", "unknown"} :
       TaskEndsReady(i, end)
  \/ GuestAnswers /\ plan.guest \in {"shuts", "ignores"}

\* The event loop runs a coroutine that is ready: a step of the invocation
\* that stays possible is taken.  This is WF_vars(Step) with
\* ENABLED <<Step>>_vars written as StepEnabled, and <<Step>>_vars as a change
\* of state while an invocation is in flight (no other action is possible
\* then).
StepFairness == []<>(~StepEnabled) \/ []<><<~Idle>>_vars

\* The clock goes on, vCenter and the guest move on, and the event loop runs
\* what is ready.
SpecFair ==
  /\ Init /\ [][Next]_vars
  /\ WF_vars(Tick)
  /\ WF_vars(GuestShutsDown \/ GuestIgnores)
  /\ StepFairness

(***************************************************************************)
(* What is observed of the invocation in flight or just finished.          *)
(***************************************************************************)
\* The invocation has handed its outcome to the Dispatch Front.
Done == Idle /\ outcome # None

\* The operation the Dispatch Front called.
InvokedOp == IF events = <<>> THEN "" ELSE events[1].op

Failed(code) == outcome.kind = "exc" /\ outcome.code = code

\* The events ev of the decorated call number inv.
EventsOf(ev, inv) ==
  {i \in DOMAIN events : events[i].ev = ev /\ events[i].inv = inv}

ClientCallEvents == {i \in DOMAIN events : events[i].ev \in ClientCalls}

\* The audit records of the decorated call number inv.
AuditOf(inv) == {i \in DOMAIN audit : audit[i].inv = inv}

TasksOfKind(kind) == {i \in DOMAIN tasks : tasks[i].kind = kind}

\* The permission table, read as the specification reads it.
InTable(role, capability) ==
  IF role \in DOMAIN ROLES THEN capability \in ROLES[role] ELSE FALSE

\* The caller's role lacks the capability of the invoked operation.
LacksCapability ==
  /\ events # <<>>
  /\ enable_rbac
  /\ ~InTable(args.role, RequiredPermission(InvokedOp))

(***************************************************************************)
(* Claims.                                                                 *)
(***************************************************************************)
\* C1: with RBAC enabled, an invocation whose role lacks the operation's
\* capability makes no call to the management-plane client at any time, and
\* ends with an authorization failure and exactly one audit record, of
\* status 'failed'.
C1_UnauthorizedTouchesNothing ==
  LacksCapability =>
    /\ ClientCallEvents = {}
    /\ tasks = <<>>
    /\ Done =>
         /\ Failed("AUTHZ_ERROR")
         /\ Len(audit) = 1
         /\ audit[1].inv = 1
         /\ audit[1].operation = InvokedOp
         /\ audit[1].status = "failed"

C1_Witness ==
  /\ Done
  /\ LacksCapability
  /\ args.role = "viewer"
  /\ InvokedOp = "delete_vm"
  /\ EventsOf("authorize", 1) # {}
  /\ Failed("AUTHZ_ERROR")

\* C2: with authorization enabled check_permission answers true exactly for
\* the pairs of the permission table, false for every capability of a role
\* the table does not hold (and has an answer for it); an invocation is
\* refused by the gate exactly when its pair is not in the table.
C2_PermissionTable ==
  /\ \A r \in Roles : \A c \in Capabilities :
       check_permission(TRUE, r, c) = InTable(r, c)
  /\ \A c \in Capabilities : check_permission(TRUE, "guest", c) = FALSE
  /\ (Done /\ enable_rbac) =>
       (Failed("AUTHZ_ERROR") <=> ~InTable(args.role, RequiredPermission(InvokedOp)))

C2_Witness ==
  /\ Done
  /\ enable_rbac
  /\ args.role = "guest"
  /\ InvokedOp = "list_vms"
  /\ EventsOf("authorize", 1) # {}
  /\ Failed("AUTHZ_ERROR")

\* C3: with enable_rbac false check_permission answers true for every role,
\* known or not, and every capability, held by some role or by none, and no
\* authorization failure is raised or surfaced.
C3_DisabledGateAdmitsAll ==
  ~enable_rbac =>
    /\ \A r \in Roles : \A c \in Capabilities : check_permission(enable_rbac, r, c)
    /\ ~(origin.kind = "exc" /\ origin.code = "AUTHZ_ERROR")
    /\ ~Failed("AUTHZ_ERROR")

C3_Witness ==
  /\ Done
  /\ ~enable_rbac
  /\ args.role = "guest"
  /\ InvokedOp = "delete_vm"
  /\ EventsOf("authorize", 1) # {}
  /\ outcome.kind = "ret"

\* C4: an invocation that ends with an authorization or a validation failure
\* has made the failing check once and has failed at once: one attempt, no
\* backoff sleep, no time spent.
C4_RefusalsNotRetried ==
  (Done /\ (Failed("AUTHZ_ERROR") \/ Failed("VALIDATION_ERROR"))) =>
    /\ Cardinality(EventsOf("authorize", 1)) = 1
    /\ Cardinality(EventsOf("validate", 1)) <= 1
    /\ EventsOf("backoff", 1) = {}
    /\ now = 0

\* C5: an invocation of a retry-wrapped operation, all its attempts and
\* backoff sleeps together, is over no later than the operation's deadline T
\* after it started.
C5_DeadlineBoundsRetries ==
  (events # <<>> /\ Retryable(InvokedOp)) => now <= HandlerTimeout(InvokedOp)

\* C6: one delete_vm invocation runs its body once: it submits the destroy
\* action at most once and the power-off at most once, sleeps no backoff, and
\* a failure of the lookup, of either task or of the deadline ends it.
C6_DeleteRunsOnce ==
  InvokedOp = "delete_vm" =>
    /\ Cardinality(TasksOfKind("Destroy_Task")) <= 1
    /\ Cardinality(TasksOfKind("PowerOffVM_Task")) <= 1
    /\ Cardinality(EventsOf("authorize", 1)) = 1
    /\ EventsOf("backoff", 1) = {}
    /\ now <= HandlerTimeout("delete_vm")
    /\ (Done /\ outcome.kind = "exc") =>
         /\ origin.kind = "exc"
         /\ Len(audit) = 1

C6_Witness ==
  /\ Done
  /\ InvokedOp = "delete_vm"
  /\ Len(tasks) = 2
  /\ tasks[1].kind = "PowerOffVM_Task"
  /\ tasks[2].kind = "Destroy_Task"
  /\ tasks[2].state = "error"
  /\ Failed("VM_OPERATION_ERROR")

\* C7: in delete_vm the destroy action is submitted only when the virtual
\* machine is powered off: if a power-off was submitted, it comes first and
\* the poller has seen it succeed; a power-off that fails, ends in an
\* unexpected state or is still pending leaves no destroy action behind.
C7_DestroyAfterPowerOff ==
  InvokedOp = "delete_vm" =>
    \A i \in TasksOfKind("Destroy_Task") :
      /\ \A j \in TasksOfKind("PowerOffVM_Task") :
           j < i /\ tasks[j].state = "success"
      /\ vm.power = "poweredOff"

C7_Witness ==
  /\ InvokedOp = "delete_vm"
  /\ Len(tasks) = 2
  /\ tasks[1].kind = "PowerOffVM_Task"
  /\ tasks[1].state = "success"
  /\ tasks[2].kind = "Destroy_Task"
  /\ EventsOf("backoff", 1) = {}

\* C8: the failure the Dispatch Front receives is the failure as it was
\* raised: the same error code and the same message.
C8_PropagatedUnchanged ==
  (Done /\ outcome.kind = "exc") => outcome = origin

C10_SinkFailureHarmless ==
  Done => outcome = wrapped

\* The wait for task i is going on: the innermost body is in the loop of
\* wait_for_task_async, at the read or in the sleep before it.
Waiting(i) ==
  IF Idle THEN FALSE
  ELSE /\ Top(Cur).task = i
       /\ tasks[i].polled = None
       /\ IF Top(Cur).pc = "poll" THEN TRUE
          ELSE Top(Cur).pc = "sleep" /\ Top(Cur).resume = "poll"

\* C11: what wait_for_task_async ends with is determined by the state the
\* task ended in: for 'success' it returns the task's result as it is, for
\* 'error' it raises 'Task failed: ' with the remote message, for any other
\* state that is not running or queued it raises 'Task ended with unexpected
\* state'; it returns a value for no task that did not succeed, and every
\* task that reached an end state while it was waited for has been answered
\* when the invocation is over.
C11_PollerOutcome ==
  \A i \in DOMAIN tasks :
    LET t == tasks[i] IN
    /\ t.polled.kind = "ret" => t.state = "success"
    /\ t.polled # None =>
         /\ t.state = "success" => t.polled = Ret(t.result)
         /\ t.state = "error" =>
              t.polled = VMwareMCPException("Task failed: " \o t.error)
         /\ t.state \notin {"success", "error", "running", "queued"} =>
              t.polled = VMwareMCPException("Task ended with unexpected state: "
                                            \o t.state)
    /\ (Done /\ t.state \notin {"running", "queued"}) => t.polled # None

C11_Witness ==
  /\ Done
  /\ InvokedOp = "clone_vm"
  /\ plan.delay = 1
  /\ Len(tasks) = 1
  /\ tasks[1].state = "success"
  /\ tasks[1].polled = Ret("result of task-1")
  /\ tasks[1].polledAt = 1
  /\ outcome.kind = "ret"

\* C12: a wait for a task that stays running or queued ends with a timeout
\* failure, no earlier than the wait's deadline D after the wait began and no
\* later than one poll interval after D; no wait goes on beyond that.
C12_PollerTimeout ==
  \A i \in DOMAIN tasks :
    LET t == tasks[i] IN
    /\ (t.polled.kind = "exc" /\ t.polled.code = "TIMEOUT_ERROR") =>
         /\ t.state \in {"running", "queued"}
         /\ t.polledAt - t.waitStart >= t.waitTimeout
         /\ t.polledAt - t.waitStart <= t.waitTimeout + PollInterval
    /\ Waiting(i) => now - t.waitStart <= t.waitTimeout + PollInterval

C12_Witness ==
  \E i \in DOMAIN tasks :
    /\ tasks[i].state = "running"
    /\ tasks[i].polled.kind = "exc"
    /\ tasks[i].polled.code = "TIMEOUT_ERROR"
    /\ tasks[i].polledAt = tasks[i].waitStart + tasks[i].waitTimeout + PollInterval

\* The attempts of the decorated call number inv: each begins with the
\* authorization check.
Attempts(inv) == Cardinality(EventsOf("authorize", inv))

\* The backoff sleeps of the decorated call number inv, in order.
Backoffs(inv) == SelectSeq(events, LAMBDA e : e.ev = "backoff" /\ e.inv = inv)

\* delay * backoff^0 + ... + delay * backoff^(k-1)
RECURSIVE BackoffTotal(_)
BackoffTotal(k) ==
  IF k = 0 THEN 0 ELSE BackoffTotal(k - 1) + RetryDelay * RetryBackoff ^ (k - 1)

\* The sleeps of the decorated call number inv are delay, delay * backoff, ...
GeometricBackoffs(inv) ==
  \A i \in 1..Len(Backoffs(inv)) :
    Backoffs(inv)[i].arg = ToString(RetryDelay * RetryBackoff ^ (i - 1))

\* C13: a retry-wrapped invocation that returns a value after k failed
\* attempts (k <= max_retries) has made k + 1 attempts and slept k times, for
\* delay * backoff^i seconds the i-th time; start_vm whose first k power-on
\* tasks fail and whose next one succeeds returns the value of that attempt,
\* and has spent the sum of these sleeps and nothing else but its polls.
C13_RetrySuccess ==
  /\ (Done /\ Retryable(InvokedOp) /\ outcome.kind = "ret") =>
       /\ Len(Backoffs(1)) <= max_retries
       /\ Attempts(1) = Len(Backoffs(1)) + 1
       /\ GeometricBackoffs(1)
  /\ (Done /\ InvokedOp = "start_vm" /\ tasks # <<>> /\ plan.firstFault = 1
         /\ plan.faultCount <= max_retries /\ plan.fate # "stuck") =>
       LET k == plan.faultCount IN
       /\ Len(tasks) = k + 1
       /\ outcome = Ret([ status |-> "started", vm_name |-> args.name,
                          task_result |-> tasks[k + 1].result ])
       /\ Attempts(1) = k + 1
       /\ Len(Backoffs(1)) = k
       /\ now = BackoffTotal(k) + (k + 1) * plan.delay * PollInterval

C13_Witness ==
  /\ Done
  /\ InvokedOp = "start_vm"
  /\ plan.firstFault = 1
  /\ plan.faultCount = max_retries
  /\ plan.delay = 0
  /\ Len(tasks) = max_retries + 1
  /\ outcome.kind = "ret"
  /\ now = BackoffTotal(max_retries)

\* C14: a retry-wrapped invocation that fails has made max_retries + 1
\* attempts and slept max_retries times, each time before a further attempt
\* and never after the last; what it raises is the failure of the last
\* attempt: for start_vm whose power-on tasks all fail, the failure of the
\* last task.
C14_RetryExhaustion ==
  (Done /\ Retryable(InvokedOp) /\ outcome.kind = "exc") =>
    /\ Attempts(1) = max_retries + 1
    /\ Len(Backoffs(1)) = max_retries
    /\ GeometricBackoffs(1)
    /\ \A i \in EventsOf("backoff", 1) : \E j \in EventsOf("authorize", 1) : i < j
    /\ (InvokedOp = "start_vm" /\ Len(tasks) = max_retries + 1
          /\ tasks[Len(tasks)].state = "error") =>
         /\ outcome = ExceptClause("start_vm", TaskFailed(tasks[Len(tasks)]))
         /\ now = BackoffTotal(max_retries)
                  + (max_retries + 1) * plan.delay * PollInterval

C14_Witness ==
  /\ Done
  /\ InvokedOp = "start_vm"
  /\ Len(tasks) = max_retries + 1
  /\ \A i \in DOMAIN tasks : tasks[i].state = "error"
  /\ tasks[1].error # tasks[Len(tasks)].error
  /\ Failed("VM_OPERATION_ERROR")
  /\ Len(Backoffs(1)) = max_retries

\* The events of the invocation that act on the management plane.
ActionEvents(evs) == {i \in DOMAIN evs : evs[i].ev \in {"submit", "ShutdownGuest"}}

\* C15: start_vm called (by a role that may, with a valid name, on a
\* connected server) for the virtual machine while it is powered on returns
\* at once the value 'already_running', submits no task and no other action,
\* and leaves the virtual machine as it was; so does every further call.
C15_StartIdempotent ==
  [][ ( /\ Idle
        /\ events = <<>>
        /\ events' # <<>>
        /\ events'[1].op = "start_vm"
        /\ vm.power = "poweredOn"
        /\ PassesChecks("start_vm", args') )
      => ( /\ outcome' = Ret([status |-> "already_running", vm_name |-> args'.name])
           /\ stack' = <<>>
           /\ tasks' = <<>>
           /\ ActionEvents(events') = {}
           /\ vm' = vm ) ]_vars

C15_Witness ==
  /\ Done
  /\ InvokedOp = "start_vm"
  /\ vm.power = "poweredOn"
  /\ tasks = <<>>
  /\ EventsOf("lookup", 1) # {}
  /\ outcome = Ret([status |-> "already_running", vm_name |-> EntityName])

\* C16: a stop_vm that is not forced, of the powered-on virtual machine whose
\* guest accepts the shutdown request: if the guest has not acted on it when
\* the grace period is over, every attempt submits a power-off after the
\* grace period and waits for it, and the value returned names the method
\* 'force_stop_fallback' and carries the result of a power-off that
\* succeeded; if the guest has shut down, the value names the method
\* 'graceful_shutdown' and no power-off is submitted.
C16_StopWithFallback ==
  (InvokedOp = "stop_vm" /\ ~args.force /\ EventsOf("ShutdownGuest", 1) # {}) =>
    /\ plan.guest = "ignores" =>
         /\ \A i \in DOMAIN tasks :
              /\ tasks[i].kind = "PowerOffVM_Task"
              /\ tasks[i].waitStart >= GraceSleep
         /\ Done =>
              /\ Len(tasks) = Cardinality(EventsOf("ShutdownGuest", 1))
              /\ outcome.kind = "ret" =>
                   /\ tasks[Len(tasks)].polled = Ret(tasks[Len(tasks)].result)
                   /\ outcome = Ret([ status |-> "stopped", vm_name |-> args.name,
                                      method |-> "force_stop_fallback",
                                      task_result |-> tasks[Len(tasks)].result ])
    /\ plan.guest = "shuts" =>
         /\ tasks = <<>>
         /\ Done => outcome = Ret([ status |-> "stopped", vm_name |-> args.name,
                                    method |-> "graceful_shutdown" ])

C16_Witness ==
  /\ Done
  /\ InvokedOp = "stop_vm"
  /\ ~args.force
  /\ plan.guest = "ignores"
  /\ Len(tasks) = 1
  /\ tasks[1].waitStart = GraceSleep
  /\ outcome.kind = "ret"
  /\ outcome.val.method = "force_stop_fallback"
  /\ vm.power = "poweredOff"

\* C17: modify_vm_resources called by a role that holds the capability, with
\* a valid name and with neither cpu_count nor memory_mb, returns the value of
\* status 'no_changes' and makes no call to the management-plane client,
\* whether the named virtual machine exists or not.
C17_NoChangeTouchesNothing ==
  ( /\ Done
    /\ InvokedOp = "modify_vm_resources"
    /\ check_permission(enable_rbac, args.role, "resource:allocate")
    /\ validate_vm_name(args.name)
    /\ args.cpu_count = <<>>
    /\ args.memory_mb = <<>> )
  => /\ outcome = Ret([ status |-> "no_changes", vm_name |-> args.name,
                        message |-> "No resource changes specified" ])
     /\ ClientCallEvents = {}

\* The nodes the search of the invocation compared.
Visits == {i \in DOMAIN events : events[i].ev = "visit"}
VisitedSnapshots == {events[i].arg : i \in Visits}

SeqRange(q) == {q[i] : i \in DOMAIN q}

C19_EveryInvocationEnds == (~Idle) ~> Done

C19_Witness ==
  /\ Done
  /\ InvokedOp = "clone_vm"
  /\ Len(tasks) = 1
  /\ tasks[1].state = "running"
  /\ tasks[1].polled = None
  /\ outcome = TimeoutError(TimeoutText("clone_vm"))
  /\ now = HandlerTimeout("clone_vm")

\* The frame whose wait_for timer fires first: the outermost one that is due.
FirstDue == CHOOSE j \in DueFrames : \A k \in DueFrames : j <= k

\* C20: when the timer of wait_for fires while the body is suspended in a
\* sleep, the body is stopped there: the step submits no task and makes no
\* call to the management-plane client, and the failure raised is the timeout
\* failure of that call.
C20_DeadlineStopsBody ==
  [][ (DeadlineReady /\ stack' # stack)
      => /\ Len(tasks') = Len(tasks)
         /\ ClientCallEvents' = ClientCallEvents
         /\ origin' = TimeoutError(TimeoutText(stack[FirstDue].op)) ]_vars

\* The request was turned down by _execute_tool itself: no operation ran.
Refused == Idle /\ events = <<>> /\ reply # <<>>

\* C21: call_tool hands the transport exactly one text item for every
\* request, whatever the name and the argument bag: the result as text when
\* the operation returns, "Error: " and the message when it or the dispatch
\* raises; and it enters the operation it resolved at most once.
C21_DispatchFrontAnswers ==
  /\ Len(reply) <= 1
  /\ ~Idle => reply = <<>>
  /\ Cardinality(EventsOf("enter", 1)) <= 1
  /\ \A i \in DOMAIN events : events[i].ev = "enter" => events[i].inv # 1 \/ i = 1
  /\ Done =>
       /\ Len(reply) = 1
       /\ reply[1].type = "text"
       /\ reply[1].text = IF outcome.kind = "ret" THEN <<str(outcome.val)>>
                          ELSE <<"Error: ", outcome.msg>>
  /\ Refused =>
       /\ reply[1].type = "text"
       /\ Len(reply[1].text) = 2
       /\ reply[1].text[1] = "Error: "
       /\ reply[1].text[2] \in {"Unknown tool: frobnicate", "'vm_name'", "'host_name'",
                                 "'source_vm_name'", "'clone_name'", "'snapshot_name'"}
                                \cup {"Unknown tool: " \o n : n \in Catalog \ Dispatched}

C21_Witness ==
  /\ Done
  /\ InvokedOp = "start_vm"
  /\ Cardinality(EventsOf("backoff", 1)) = max_retries
  /\ Cardinality(EventsOf("enter", 1)) = 1
  /\ outcome.kind = "exc"
  /\ reply = <<TextContent(<<"Error: ", outcome.msg>>)>>

\* A failure's text names the error code of the failure.
Includes(text, piece) == \E i \in DOMAIN text : text[i] = piece

\* C22: every failure call_tool returns carries the failure's error code and
\* its message.
C22_FailureCarriesKind ==
  (Done /\ outcome.kind = "exc") =>
    /\ Includes(reply[1].text, outcome.code)
    /\ Includes(reply[1].text, outcome.msg)

\* The input rules of modify_vm_resources as the specification states them.
BadName(name) ==
  \/ Len(name) = 0
  \/ Len(name) > 80
  \/ \E i \in DOMAIN name : name[i] \in {"/", "\\", ":", "*", "?", "\"", "<", ">", "|"}

BadCpu(a) == a.cpu_count # <<>> /\ ~(a.cpu_count[1] \in 1..128)

BadMemory(a) == a.memory_mb # <<>> /\ ~(a.memory_mb[1] \in 4..1048576)

\* C23: modify_vm_resources called by a role that may fails with a
\* validation failure exactly when the name is invalid, or cpu_count is given
\* and outside 1..128, or memory_mb is given and outside 4..1048576; the
\* failure is that of the first rule violated (name, CPU, memory), and no
\* call to the management-plane client was made.
C23_ModifyValidation ==
  ( /\ Done
    /\ InvokedOp = "modify_vm_resources"
    /\ check_permission(enable_rbac, args.role, "resource:allocate") )
  => /\ Failed("VALIDATION_ERROR")
          <=> (BadName(args.name) \/ BadCpu(args) \/ BadMemory(args))
     /\ Failed("VALIDATION_ERROR") =>
          /\ ClientCallEvents = {}
          /\ tasks = <<>>
          /\ outcome.msg =
               IF BadName(args.name) THEN "Invalid VM name: " \o Str(args.name)
               ELSE IF BadCpu(args) THEN "CPU count must be between 1 and 128"
               ELSE "Memory must be between 4 MB and 1 TB"

C23_Witness ==
  /\ Done
  /\ InvokedOp = "modify_vm_resources"
  /\ args.name = EntityName
  /\ args.cpu_count = <<129>>
  /\ args.memory_mb = <<3>>
  /\ outcome = ValidationError("CPU count must be between 1 and 128")
  /\ events[Len(events)].ev = "raise"

\* The limits themselves are accepted.
LimitsAccepted ==
  /\ Done
  /\ InvokedOp = "modify_vm_resources"
  /\ args.name = EntityName
  /\ args.cpu_count = <<128>>
  /\ args.memory_mb = <<1048576>>
  /\ outcome.kind = "ret"
  /\ outcome.val.status = "modified"

\* C24: whatever the permission table, restart_vm asks for the capability
\* of start_vm and for no other: a role that holds vm:start is not refused
\* for lack of a permission, a role that does not hold it is refused.
C24_RestartNeedsStartOnly ==
  (Done /\ InvokedOp = "restart_vm" /\ enable_rbac) =>
    IF "vm:start" \in get_user_permissions(args.role)
    THEN IF origin = None THEN TRUE ELSE origin.code # "AUTHZ_ERROR"
    ELSE Failed("AUTHZ_ERROR")

SharedName(tree) ==
  LET names == get_all_snapshot_names(tree)
  IN \E i, j \in DOMAIN names : i # j /\ names[i] = names[j]

\* C26: create_snapshot fails without submitting a CreateSnapshot_Task
\* whenever a snapshot of the requested name is anywhere in the tree of the
\* virtual machine, and so, after any sequence of create_snapshot requests
\* made one after the other, no two snapshots of the virtual machine have the
\* same name.
C26_NoSharedSnapshotName ==
  /\ \A i \in 1..Len(events) :
       (events[i].ev = "submit" /\ events[i].arg = "CreateSnapshot_Task")
         => ~\E j \in DOMAIN get_all_snapshot_names(plan.tree) :
               get_all_snapshot_names(plan.tree)[j] = args.name2
  /\ ~SharedName(remoteSnapshots.tree)

\* C27: enter_maintenance_mode and exit_maintenance_mode, when they submit
\* the mode-change task, bound the invocation and the poll of the task with a
\* deadline strictly longer than settings.operation_timeout.
C27_MaintenanceExtendedDeadline ==
  /\ \A i \in 1..Len(tasks) :
       tasks[i].kind \in {"EnterMaintenanceMode_Task", "ExitMaintenanceMode_Task"}
         => tasks[i].waitTimeout > OperationTimeout
  /\ \A k \in 1..Len(stack) :
       (stack[k].op \in {"enter_maintenance_mode", "exit_maintenance_mode"}
          /\ stack[k].armed /\ stack[k].pc = "poll")
         => stack[k].deadline - stack[k].start > OperationTimeout

\* C29: within one decorated call the steps come strictly in the order
\* authorize, validate, execute, audit: no call reaches the management plane
\* before the permission check, no permission check and no validation
\* happens once the body has made a call to the management plane, and the
\* audit record ends the call.
C29_StrictlySequential ==
  \A j \in DOMAIN events :
    /\ events[j].ev \in ClientCalls
         => \E i \in 1..(j - 1) : /\ events[i].inv = events[j].inv
                                  /\ events[i].ev = "authorize"
    /\ events[j].ev \in {"authorize", "validate"}
         => ~\E i \in 1..(j - 1) : /\ events[i].inv = events[j].inv
                                   /\ events[i].ev \in ClientCalls
    /\ events[j].ev \in {"return", "raise"}
         => ~\E i \in (j + 1)..Len(events) : events[i].inv = events[j].inv

\* C30: a start_vm that is tried again after an attempt timed out with its
\* PowerOnVM_Task still queued or running submits no second PowerOnVM_Task
\* while the first has not ended: one start_vm invocation never has more
\* than one PowerOnVM_Task outstanding.
C30_OnePowerOnOutstanding ==
  (stack # <<>> /\ stack[1].op = "start_vm")
    => Cardinality({ i \in DOMAIN tasks :
                       /\ tasks[i].kind = "PowerOnVM_Task"
                       /\ tasks[i].state \in {"queued", "running"} }) <= 1

\* A step of the event loop is possible.
LoopEnabled ==
  \/ SwitchReady
  \/ PollTaskReady
  \/ WakeReady
  \/ DeadlineReady
  \/ TickReady /\ ParkedWaits
  \/ \E i \in 1..Len(tasks) : TaskRunsReady(i)
  \/ \E i \in 1..Len(tasks) : \E end \in {"success", "error"} : TaskEndsReady(i, end)
  \/ GuestAnswers /\ plan.guest \in {"shuts", "ignores"}

\* C28: with two invocations in flight on different entities, one that is
\* suspended in a sleep while its task stays queued or running never keeps
\* the other from going on and ending, the one begun later may end first, and
\* each ends with the outcome, and after the time, it ends with when it runs
\* alone.
C28_Independent ==
  concurrent.phase = "together" =>
    /\ (Idle /\ outcome # None) =>
         /\ outcome = concurrent.alone[concurrent.running].outcome
         /\ audit = concurrent.alone[concurrent.running].audit
    /\ (concurrent.parked.live /\ concurrent.parked.stack = <<>>) =>
         /\ concurrent.parked.outcome
              = concurrent.alone[concurrent.parked.id].outcome
         /\ concurrent.parked.audit = concurrent.alone[concurrent.parked.id].audit
    /\ (~Idle \/ (concurrent.parked.live /\ concurrent.parked.stack # <<>>))
         => LoopEnabled

\* The invocation begun later has ended; the one begun first is still
\* suspended, its task queued or running.
C28_Witness ==
  /\ concurrent.phase = "together"
  /\ concurrent.parked.live
  /\ concurrent.running # concurrent.first
  /\ Idle
  /\ outcome.kind = "ret"
  /\ concurrent.parked.stack # <<>>
  /\ \E i \in 1..Len(concurrent.parked.tasks) :
       concurrent.parked.tasks[i].state \in {"queued", "running"}

\* The executions of the body of op, each of which starts with its permission
\* check.
BodyRuns(op) == {i \in DOMAIN events : events[i].ev = "authorize" /\ events[i].op = op}

\* C31: one restart_vm invocation, however its sub-operations fail, runs the
\* body of stop_vm at most max_retries + 1 times and the body of start_vm at
\* most max_retries + 1 times.
C31_RestartRetryBound ==
  (events # <<>> /\ events[1].op = "restart_vm")
    => /\ Cardinality(BodyRuns("stop_vm")) <= max_retries + 1
       /\ Cardinality(BodyRuns("start_vm")) <= max_retries + 1

\* C32: with RBAC enabled and the default permission table, a call of a tool
\* of the Dispatch Front that runs with the role _execute_tool puts in for an
\* omitted user_role is never refused for lack of a permission.
C32_DefaultRoleAdmitted ==
  (Done /\ enable_rbac /\ table = ROLES /\ InvokedOp \in Dispatched
     /\ args.role = DefaultRole(InvokedOp))
    => IF origin = None THEN TRUE ELSE origin.code # "AUTHZ_ERROR"

\* C33: in the default permission table admin holds every capability a
\* catalog operation requires, those of operator and viewer among them: with
\* RBAC enabled no catalog operation is refused to admin for lack of a
\* permission.
C33_AdminHoldsAll ==
  (Done /\ enable_rbac /\ table = ROLES /\ InvokedOp \in Catalog
     /\ args.role = "admin")
    => /\ RequiredPermission(InvokedOp) \in ROLES["admin"]
       /\ ROLES["operator"] \cup ROLES["viewer"] \subseteq ROLES["admin"]
       /\ IF origin = None THEN TRUE ELSE origin.code # "AUTHZ_ERROR"

\* C34: with RBAC enabled, a call of any tool of the Dispatch Front, the
\* inference tools among them, with a role that holds no capability is
\* refused with an authorization failure before any call to the management
\* plane or to the inference service.
C34_EveryToolGated ==
  (Done /\ enable_rbac /\ args.role \notin DOMAIN table)
    => /\ Failed("AUTHZ_ERROR")
       /\ \A i \in DOMAIN events :
            events[i].ev \notin ClientCalls \cup {"generate_response"}

\* C35: once the application has started (it is connected and in its loop)
\* and then receives SIGINT or SIGTERM, it eventually disconnects from the
\* management plane.
Signalled == app.pc \in {"loop", "sleep"} /\ app.signum # "" /\ ~app.running

C35_ShutdownDisconnects == (Signalled /\ si) ~> ~si

\* C39: whenever connect() has returned False, the auth manager holds no
\* service instance and no open REST session.
C39_FailedConnectLeavesNothingOpen ==
  app.connected = "False" => ~si /\ ~app.session

\* C36: _find_snapshot_by_name returns the snapshot of the first node in
\* pre-order that carries the name, and nothing exactly when no node carries
\* it; revert_snapshot and delete_snapshot submit their one task on that
\* snapshot and on no other.
RECURSIVE PreOrder(_)
PreOrder(snapshots) ==
  IF snapshots = <<>> THEN <<>>
  ELSE <<Head(snapshots)>> \o PreOrder(Head(snapshots).childSnapshotList)
                           \o PreOrder(Tail(snapshots))

FirstNamed(snapshots, snapshot_name) ==
  LET nodes == PreOrder(snapshots)
      carrying == {i \in DOMAIN nodes : nodes[i].name = snapshot_name}
  IN IF carrying = {} THEN <<>>
     ELSE <<nodes[CHOOSE i \in carrying : \A j \in carrying : i <= j].snapshot>>

ByNameOps == {"revert_snapshot", "delete_snapshot"}

C36_FirstInPreOrder ==
  InvokedOp \in ByNameOps =>
    LET first == FirstNamed(plan.tree, args.name2)
        submits == {i \in DOMAIN events : events[i].ev = "submit"}
        receivers == {i \in DOMAIN events : events[i].ev = "on"}
    IN /\ find_snapshot_by_name(plan.tree, args.name2).snapshot = first
       /\ first = <<>> => submits = {} /\ receivers = {}
       /\ Cardinality(submits) <= 1
       /\ \A i \in submits : i - 1 \in receivers
       /\ \A i \in receivers :
            /\ first # <<>>
            /\ events[i].arg = ToString(first[1])
            /\ i + 1 \in submits

\* A finished revert_snapshot that found the name on two nodes, a child of
\* the first root and the second root, and acted on the child.
C36_Witness ==
  /\ Done
  /\ InvokedOp = "revert_snapshot"
  /\ outcome.kind = "ret"
  /\ Cardinality({i \in DOMAIN PreOrder(plan.tree) :
                    PreOrder(plan.tree)[i].name = args.name2}) = 2
  /\ \E i \in DOMAIN events : events[i].ev = "on" /\ events[i].arg = "3"

\* C37: within one run of the body of restart_vm, start_vm is entered and
\* the power-on is submitted only after stop_vm has returned a value in that
\* run, and not after stop_vm has raised in it; a graceful shutdown is asked
\* of the guest only when force is unset; every call on the stack was made
\* with the caller's user_role, and stop_vm with the caller's force; a
\* restart that succeeds returns status "restarted" with the value stop_vm
\* returned and the value start_vm returned.
RestartRun(i) ==
  CHOOSE k \in 1..i :
    /\ events[k].ev = "authorize" /\ events[k].op = "restart_vm"
    /\ \A j \in (k + 1)..i :
         ~(events[j].ev = "authorize" /\ events[j].op = "restart_vm")

StopEnded(how, k, i) ==
  \E j \in (k + 1)..(i - 1) : events[j].ev = how /\ events[j].op = "stop_vm"

C37_RestartIsStopPauseStart ==
  InvokedOp = "restart_vm" =>
    /\ \A i \in DOMAIN events :
         ( \/ events[i].op = "start_vm"
           \/ events[i].ev = "submit" /\ events[i].arg = "PowerOnVM_Task" )
         => /\ StopEnded("return", RestartRun(i), i)
            /\ ~StopEnded("raise", RestartRun(i), i)
    /\ args.force => \A i \in DOMAIN events : events[i].ev # "ShutdownGuest"
    /\ \A i \in DOMAIN stack :
         /\ stack[i].user_role = args.role
         /\ stack[i].op \in {"restart_vm", "stop_vm"} => stack[i].force = args.force
    /\ (Done /\ outcome.kind = "ret") =>
         /\ outcome.val.status = "restarted"
         /\ outcome.val.vm_name = args.name
         /\ outcome.val.stop_result.status \in {"stopped", "already_stopped"}
         /\ outcome.val.start_result.status \in {"started", "already_running"}
         /\ \E i, j \in DOMAIN events :
              /\ i < j
              /\ events[i].ev = "return" /\ events[i].op = "stop_vm"
              /\ events[j].ev = "return" /\ events[j].op = "start_vm"
              /\ RestartRun(i) = RestartRun(j)

\* A restart that succeeded in a later run of its body, after a run in which
\* stop_vm raised, and that powered the machine on.
C37_Witness ==
  /\ Done
  /\ InvokedOp = "restart_vm"
  /\ outcome.kind = "ret"
  /\ outcome.val.status = "restarted"
  /\ \E i \in DOMAIN events : events[i].ev = "raise" /\ events[i].op = "stop_vm"
  /\ \E i \in DOMAIN events :
       events[i].ev = "submit" /\ events[i].arg = "PowerOnVM_Task"

\* C38: of two create_snapshot invocations in flight at a time for the same
\* virtual machine and the same snapshot name, at most one submits
\* CreateSnapshot_Task, and the tree never holds the name twice.
Submitted(log) == \E i \in DOMAIN log : log[i].ev = "submit"

C38_OverlappingCreatesCollide ==
  ( /\ concurrent.parked.live
    /\ InvokedOp = "create_snapshot"
    /\ concurrent.parked.args.name = args.name
    /\ concurrent.parked.args.name2 = args.name2 )
  => /\ ~(Submitted(events) /\ Submitted(concurrent.parked.events))
     /\ ~SharedName(remoteSnapshots.tree)

\* C40: wait_for_task_async raises its timeout only for a task whose state
\* it has just read as queued or running; for a task it reads in an end
\* state it reports that end (the result, the task's fault, the unexpected
\* state), also after the deadline has passed; and no step of the server
\* changes the state of a task: a task the wait gave up on is as the remote
\* plane left it.
PollReport(task) ==
  CASE task.state = "success" -> Ret(task.result)
    [] task.state = "error" -> TaskFailed(task)
    [] task.state \in {"queued", "running"} ->
         TimeoutError("Task task-1 timed out after "
                      \o ToString(task.waitTimeout) \o "s")
    [] OTHER -> UnexpectedState(task)

C40_TimeoutOnlyForUnfinishedTask ==
  /\ [](\A i \in DOMAIN tasks :
          tasks[i].polled # None =>
            /\ tasks[i].polled = PollReport(tasks[i])
            /\ tasks[i].state \in {"queued", "running"} =>
                 tasks[i].polledAt - tasks[i].waitStart > tasks[i].waitTimeout)
  /\ [][\A i \in DOMAIN tasks :
          (i \in DOMAIN tasks' /\ tasks'[i].state # tasks[i].state)
            => /\ UNCHANGED <<stack, events, outcome>>
               /\ tasks[i].polled = None
               /\ tasks'[i].polled = None]_vars

\* The wait has ended with the result of a task that it read in state
\* success after the deadline had passed.
C40_Witness ==
  /\ Done
  /\ outcome.kind = "ret"
  /\ \E i \in DOMAIN tasks :
       /\ tasks[i].state = "success"
       /\ tasks[i].polled = Ret(tasks[i].result)
       /\ tasks[i].polledAt - tasks[i].waitStart > tasks[i].waitTimeout

====
